---- MODULE Spec2Model ----
(***************************************************************************)
(* MetaService (services/metaService.js): the in-memory cache with its     *)
(* expiry map and file snapshot, the request queue with its drain loop,    *)
(* executeRequest, and getAdInsights(adId, dateRange, _t).                 *)
(*                                                                         *)
(* JavaScript runs each handler to its next await; every action below is   *)
(* one such run.  Time is Date.now() in milliseconds.                      *)
(***************************************************************************)
EXTENDS Integers, Sequences, FiniteSets, TLC

(* ---------------------------------------------------------------- bounds *)
MaxRequests == 3        \* makeRequest calls in one behaviour of Spec
MaxQueued == 3          \* makeRequest calls in one behaviour of SpecQueue
MaxInsightRequests == 3 \* makeRequest calls in one behaviour of SpecInsights
MaxCalls == 2           \* getAdInsights calls in one behaviour
MaxTicks == 1           \* clock advances in one behaviour
Epoch == 100000         \* Date.now() when the service is constructed
ShortStep == 10         \* a clock advance shorter than requestDelay
MaxParams == 3          \* properties of one params object in SpecKey
MaxRetryRequests == 4   \* makeRequest calls in one behaviour of SpecRetry

(* ----------------------------------------------------- program constants *)
requestDelay == 25
backoffDelay == 5000
ttlTodaySpend == 120000
ttlAccount == 600000
ttlCampaignInsights == 300000
ttlCreatives == 1800000
saveEvery == 5
adInsightsWindow == 300000  \* "Cache for 5 minutes", in milliseconds
defaultConversionValuePerPurchase == 50  \* "Default $50 per purchase"

(* --------------------------------------------------- JavaScript values *)
\* Values of different JavaScript types are tuples that start with a tag.
Undefined == <<"undefined">>
Null == <<"null">>
NaN == <<"NaN">>
Num(n) == <<"number", n>>
IsNum(v) == v[1] = "number"
NumVal(v) == v[2]

\* JavaScript truthiness
Truthy(v) == v[1] \notin {"undefined", "null", "NaN"} /\ v # Num(0)

\* a || b
OrElse(a, b) == IF Truthy(a) THEN a ELSE b

\* a + b on numbers; a number plus undefined is NaN
Plus(a, b) == IF IsNum(a) /\ IsNum(b) THEN Num(NumVal(a) + NumVal(b)) ELSE NaN

\* a < b, a >= b, a <= b: a comparison with NaN or undefined is false, and
\* null compares as 0
ToNumber(v) == IF v = Null THEN Num(0) ELSE IF IsNum(v) THEN v ELSE NaN
Less(a, b) ==
  IsNum(ToNumber(a)) /\ IsNum(ToNumber(b))
  /\ NumVal(ToNumber(a)) < NumVal(ToNumber(b))
GreaterEq(a, b) ==
  IsNum(ToNumber(a)) /\ IsNum(ToNumber(b))
  /\ NumVal(ToNumber(a)) >= NumVal(ToNumber(b))

Max(a, b) == IF a >= b THEN a ELSE b

\* Map.get / Map.set / Map.delete on a function whose domain is the key set
MapGet(m, k) == IF k \in DOMAIN m THEN m[k] ELSE Undefined
MapSet(m, k, v) == [x \in (DOMAIN m) \cup {k} |-> IF x = k THEN v ELSE m[x]]
MapDelete(m, k) == [x \in (DOMAIN m) \ {k} |-> m[x]]
EmptyMap == [x \in {} |-> Undefined]

(* ------------------------------------------------ JavaScript arithmetic *)
\* A JavaScript number is an IEEE 754 binary64 value.  The numbers of the
\* scoring functions are finite and not negative: such a number is m * 2^e
\* with m a natural number below 2^53, held as [m |-> limbs, e |-> exponent],
\* the limbs those of m in base 2^15, the lowest first, and m = 0 being <<>>.
RECURSIVE Power2(_)
Power2(k) == IF k = 0 THEN 1 ELSE 2 * Power2(k - 1)
Base == Power2(15)

RECURSIVE BigNorm(_)
BigNorm(a) ==
  IF a = <<>> THEN <<>>
  ELSE IF a[Len(a)] = 0 THEN BigNorm(SubSeq(a, 1, Len(a) - 1)) ELSE a

Limb(a, i) == IF i <= Len(a) THEN a[i] ELSE 0

RECURSIVE BigAddFrom(_, _, _, _)
BigAddFrom(a, b, i, carry) ==
  IF i > Len(a) /\ i > Len(b)
  THEN (IF carry = 0 THEN <<>> ELSE <<carry>>)
  ELSE LET sum == Limb(a, i) + Limb(b, i) + carry
       IN <<sum % Base>> \o BigAddFrom(a, b, i + 1, sum \div Base)
BigAdd(a, b) == BigAddFrom(a, b, 1, 0)

\* a - b, for a >= b
RECURSIVE BigSubFrom(_, _, _, _)
BigSubFrom(a, b, i, borrow) ==
  IF i > Len(a) THEN <<>>
  ELSE LET diff == Limb(a, i) - Limb(b, i) - borrow
       IN <<diff % Base>> \o BigSubFrom(a, b, i + 1, IF diff < 0 THEN 1 ELSE 0)
BigSub(a, b) == BigNorm(BigSubFrom(a, b, 1, 0))

\* -1, 0, 1 as a < b, a = b, a > b
RECURSIVE BigCmpFrom(_, _, _)
BigCmpFrom(a, b, i) ==
  IF i = 0 THEN 0
  ELSE IF a[i] < b[i] THEN -1
  ELSE IF a[i] > b[i] THEN 1
  ELSE BigCmpFrom(a, b, i - 1)
BigCmp(a, b) ==
  IF Len(a) < Len(b) THEN -1
  ELSE IF Len(a) > Len(b) THEN 1
  ELSE BigCmpFrom(a, b, Len(a))

\* a * d, for 0 <= d <= 2^15
RECURSIVE BigMulSmallFrom(_, _, _, _)
BigMulSmallFrom(a, d, i, carry) ==
  IF i > Len(a)
  THEN (IF carry = 0 THEN <<>> ELSE <<carry % Base, carry \div Base>>)
  ELSE LET prod == a[i] * d + carry
       IN <<prod % Base>> \o BigMulSmallFrom(a, d, i + 1, prod \div Base)
BigMulSmall(a, d) == BigNorm(BigMulSmallFrom(a, d, 1, 0))

RECURSIVE BigMul(_, _)
BigMul(a, b) ==
  IF b = <<>> \/ a = <<>> THEN <<>>
  ELSE LET rest == BigMul(a, Tail(b))
       IN BigAdd(BigMulSmall(a, Head(b)),
                 IF rest = <<>> THEN <<>> ELSE <<0>> \o rest)

\* floor(a / d), for 0 < d <= 2^15, from limb i down
RECURSIVE BigDivSmallFrom(_, _, _, _)
BigDivSmallFrom(a, d, i, rem) ==
  IF i = 0 THEN <<>>
  ELSE LET cur == rem * Base + a[i]
       IN BigDivSmallFrom(a, d, i - 1, cur % d) \o <<cur \div d>>
BigDivSmall(a, d) == BigNorm(BigDivSmallFrom(a, d, Len(a), 0))

RECURSIVE Zeros(_)
Zeros(n) == IF n = 0 THEN <<>> ELSE <<0>> \o Zeros(n - 1)

\* a * 2^k and floor(a / 2^k)
BigShl(a, k) ==
  IF a = <<>> THEN <<>>
  ELSE BigMulSmall(Zeros(k \div 15) \o a, Power2(k % 15))
BigShr(a, k) ==
  IF Len(a) <= k \div 15 THEN <<>>
  ELSE BigDivSmall(SubSeq(a, (k \div 15) + 1, Len(a)), Power2(k % 15))

RECURSIVE IntBitLen(_)
IntBitLen(n) == IF n = 0 THEN 0 ELSE 1 + IntBitLen(n \div 2)
BigBitLen(a) == IF a = <<>> THEN 0 ELSE 15 * (Len(a) - 1) + IntBitLen(a[Len(a)])

BigFromInt(n) == BigNorm(<<n % Base, n \div Base>>)
BigToInt(a) == Limb(a, 1) + Base * Limb(a, 2)
BigIsOdd(a) == Limb(a, 1) % 2 = 1

MantissaBits == 53
Zero == [m |-> <<>>, e |-> 0]

\* m * 2^e with m of exactly 53 bits (m has at most 53 significant bits)
Normalized(m, e) ==
  IF m = <<>> THEN Zero
  ELSE LET len == BigBitLen(m)
       IN IF len <= MantissaBits
          THEN [m |-> BigShl(m, MantissaBits - len), e |-> e - (MantissaBits - len)]
          ELSE [m |-> BigShr(m, len - MantissaBits), e |-> e + (len - MantissaBits)]

\* The binary64 value nearest to n * 2^e, ties to the even mantissa
RoundToDouble(n, e) ==
  CHOOSE result \in
    { LET len == BigBitLen(k)
      IN IF len <= MantissaBits THEN Normalized(k, e)
         ELSE LET drop == len - MantissaBits
                  kept == BigShr(k, drop)
                  rest == BigSub(k, BigShl(kept, drop))
                  half == BigCmp(rest, BigShl(<<1>>, drop - 1))
                  up == half > 0 \/ (half = 0 /\ BigIsOdd(kept))
              IN Normalized(IF up THEN BigAdd(kept, <<1>>) ELSE kept, e + drop) :
      k \in {n} } : TRUE

\* An integer of the program as a number
FromInt(n) == Normalized(BigFromInt(n), 0)

\* x + y
DoubleAdd(x, y) ==
  CHOOSE result \in
    { IF a.m = <<>> THEN b
      ELSE IF b.m = <<>> THEN a
      ELSE LET e == IF a.e < b.e THEN a.e ELSE b.e
           IN RoundToDouble(BigAdd(BigShl(a.m, a.e - e), BigShl(b.m, b.e - e)), e) :
      a \in {x}, b \in {y} } : TRUE

\* x * y
DoubleMul(x, y) ==
  CHOOSE result \in
    { RoundToDouble(BigMul(a.m, b.m), a.e + b.e) : a \in {x}, b \in {y} } : TRUE

\* One turn of the long division of rem by d: the next quotient bit
DivideBit(st, d) ==
  LET fits == BigCmp(st.rem, d) >= 0
      left == IF fits THEN BigSub(st.rem, d) ELSE st.rem
  IN [rem |-> BigMulSmall(left, 2),
      q |-> BigAdd(BigMulSmall(st.q, 2), IF fits THEN <<1>> ELSE <<>>)]

\* n turns of it
RECURSIVE DivideBits(_, _, _)
DivideBits(st, d, n) ==
  IF n = 0 THEN st
  ELSE IF n = 1 THEN DivideBit(st, d)
  ELSE CHOOSE result \in
         { DivideBits(half, d, n - (n \div 2)) :
             half \in {DivideBits(st, d, n \div 2)} } : TRUE

\* x / y, for y # 0: 56 quotient bits and a sticky bit, then rounded
DoubleDiv(x, y) ==
  CHOOSE result \in
    { IF a.m = <<>> THEN Zero
      ELSE LET bits == DivideBits([rem |-> a.m, q |-> <<>>], b.m, 56)
               sticky == IF bits.rem = <<>> THEN <<>> ELSE <<1>>
           IN RoundToDouble(BigAdd(BigMulSmall(bits.q, 2), sticky),
                            a.e - b.e - 56) :
      a \in {x}, b \in {y} } : TRUE

\* x < y and x <= y
DoubleLess(x, y) ==
  IF y.m = <<>> THEN FALSE
  ELSE IF x.m = <<>> THEN TRUE
  ELSE IF x.e # y.e THEN x.e < y.e
  ELSE BigCmp(x.m, y.m) < 0
DoubleLeq(x, y) == x = y \/ DoubleLess(x, y)

\* Math.min(x, y)
MathMin(x, y) == IF DoubleLess(y, x) THEN y ELSE x

\* Math.round(x): the integer nearest to x, a half going up
MathRound(x) ==
  IF x.m = <<>> THEN 0
  ELSE IF x.e >= 0 THEN BigToInt(BigShl(x.m, x.e))
  ELSE LET whole == BigShr(x.m, 0 - x.e)
           part == BigSub(x.m, BigShl(whole, 0 - x.e))
           up == BigCmp(part, BigShl(<<1>>, (0 - x.e) - 1)) >= 0
       IN BigToInt(whole) + (IF up THEN 1 ELSE 0)

\* A decimal literal or a decimal string of the upstream, n / d, as the
\* number it denotes: the binary64 value nearest to it
Decimal(n, d) == DoubleDiv(FromInt(n), FromInt(d))

(* ------------------------------------------------------------- TTL table *)
\* The table that is in force: the constructor's second assignment replaces
\* the first one, so it has no 'default', 'ad_insights' or 'ads_list' entry.
cacheDurations ==
  [account |-> ttlAccount, ads |-> ttlAccount, campaigns |-> ttlAccount,
   adsets |-> ttlAccount, todaySpend |-> ttlTodaySpend,
   campaignInsights |-> ttlCampaignInsights, creatives |-> ttlCreatives]

\* (mutant) a table without any category
NoDuration(name) == Undefined

\* this.cacheDurations[name]
DurationOf(name) ==
  IF name \in DOMAIN cacheDurations THEN Num(cacheDurations[name]) ELSE Undefined

(* -------------------------------------------------------- request shapes *)
\* Object.keys(params).sort(): the parameter names in code-unit order
ParamOrder ==
  <<"_t", "attribution_window", "date_preset", "fields", "level", "limit",
    "time_range">>

\* params is the sequence of <<name, value>> of the object, in insertion order
HasParam(params, name) == \E i \in 1..Len(params) : params[i][1] = name
ParamGet(params, name) ==
  params[CHOOSE i \in 1..Len(params) : params[i][1] = name][2]

\* The properties of the object, whatever their order
Properties(params) == {params[i] : i \in 1..Len(params)}

\* !params._t is false exactly when _t is present and not the empty string
ParamTruthy(params, name) == HasParam(params, name) /\ ParamGet(params, name) # ""

\* (mutant) the names are not sorted: the parts in the object's own order
RECURSIVE GivenOrderFrom(_, _)
GivenOrderFrom(params, n) ==
  IF n > Len(params) THEN <<>>
  ELSE <<params[n][1], params[n][2]>> \o GivenOrderFrom(params, n + 1)

RECURSIVE SortedFrom(_, _)
SortedFrom(params, n) ==
  IF n > Len(ParamOrder) THEN <<>>
  ELSE (IF HasParam(params, ParamOrder[n])
        THEN <<ParamOrder[n], ParamGet(params, ParamOrder[n])>>
        ELSE <<>>)
       \o SortedFrom(params, n + 1)

\* `${endpoint}?${k1=v1&k2=v2...}` with the names sorted; a string is the
\* sequence of its parts
getCacheKey(endpoint, params) == endpoint \o <<"?">> \o SortedFrom(params, 1)

\* The parameter objects a caller can build from `pairs` with at most n
\* properties: an object has each name once, in the order of its assignments
ParamObjects(pairs, n) ==
  {params \in UNION {[1..len -> pairs] : len \in 0..n} :
     \A i, j \in 1..Len(params) : params[i][1] = params[j][1] => i = j}

\* requestParams._t = _t: a property assigned after the others
WithNonce(params, nonce) == params \o << <<"_t", nonce>> >>



(* ----------------------------------------------------------------- state *)
VARIABLES
  now,               \* Date.now()
  ticks,             \* clock advances so far
  cache,             \* this.cache: key -> value
  cacheExpiry,       \* this.cacheExpiry: key -> expiry (a number or NaN)
  cacheFile,         \* meta-cache.json: Undefined, or the snapshot last written
  requestQueue,      \* this.requestQueue: ids of the queued requests
  isProcessingQueue, \* this.isProcessingQueue
  lastRequestTime,   \* this.lastRequestTime
  requests,          \* every request makeRequest built: endpoint, params, cacheType
  promise,           \* the promise makeRequest returned for each request
  drain,             \* the processRequestQueue call made for each request
  calls,             \* the getAdInsights(adId, dateRange, _t) calls
  dispatchLog,       \* history: the executeRequest calls of the drain loops
  lastCacheOps,      \* history: the getFromCache and setCache calls of the last step
  insights,          \* the argument of calculatePerformanceScore
  scores,            \* its local scores, Undefined where it returned before them
  performanceScore,  \* what it returned or threw, Undefined before the call
  previous,          \* history: the call before this one
  rawData,           \* the data a function of the service is given
  enriched,          \* what it returned, Undefined before the call
  process,           \* the Node process: "unstarted", "running", "failed", "exited"
  env,               \* process.env: META_ACCESS_TOKEN and META_AD_ACCOUNT_ID
  moduleExports,     \* module.exports of metaService.js, Undefined before it is set
  writesSinceSave,   \* history: the setCache calls since the file last held the store
  issuedBeforeClear  \* history: the requests made before clearCache last returned

vars ==
  <<now, ticks, cache, cacheExpiry, cacheFile, requestQueue, isProcessingQueue,
    lastRequestTime, requests, promise, drain, calls, dispatchLog, lastCacheOps,
    insights, scores, performanceScore, previous, rawData, enriched,
    process, env, moduleExports, writesSinceSave, issuedBeforeClear>>

scoring == <<insights, scores, performanceScore, previous>>
enrichment == <<rawData, enriched>>
lifecycle == <<process, env, moduleExports, writesSinceSave, issuedBeforeClear>>

\* The service's state as one value, so that a handler's calls compose
Svc ==
  [cache |-> cache, cacheExpiry |-> cacheExpiry, cacheFile |-> cacheFile,
   requestQueue |-> requestQueue, isProcessingQueue |-> isProcessingQueue,
   lastRequestTime |-> lastRequestTime, requests |-> requests,
   promise |-> promise, drain |-> drain, calls |-> calls,
   dispatchLog |-> dispatchLog, lastCacheOps |-> <<>>]

\* The handler's result becomes the next state.  A method below binds its
\* state argument once (s \in {state}), as a call evaluates its argument once.
CommitService(s) ==
  /\ cache' = s.cache
  /\ cacheExpiry' = s.cacheExpiry
  /\ cacheFile' = s.cacheFile
  /\ requestQueue' = s.requestQueue
  /\ isProcessingQueue' = s.isProcessingQueue
  /\ lastRequestTime' = s.lastRequestTime
  /\ requests' = s.requests
  /\ promise' = s.promise
  /\ drain' = s.drain
  /\ calls' = s.calls
  /\ dispatchLog' = s.dispatchLog
  /\ lastCacheOps' = s.lastCacheOps

Commit(s) ==
  /\ CommitService(s)
  /\ UNCHANGED scoring
  /\ UNCHANGED enrichment
  /\ UNCHANGED lifecycle

(* ----------------------------------------------------------------- cache *)
\* (mutant) a file format that keeps NaN
KeepsNaN(v) == v

\* JSON.stringify writes NaN as null
ToJSON(v) == IF v = NaN THEN Null ELSE v

\* saveCacheToFile: both maps, the expiry values as JSON writes them
saveCacheToFile(state) ==
  CHOOSE result \in {
      [s EXCEPT !.cacheFile =
         <<"file", s.cache, [k \in DOMAIN s.cacheExpiry |-> ToJSON(s.cacheExpiry[k])]>>]
    : s \in {state}} : TRUE

\* The value getFromCache(cacheKey) returns at time t
getFromCacheValue(s, cacheKey, t) ==
  LET expiry == MapGet(s.cacheExpiry, cacheKey)
  IN IF Truthy(expiry) /\ Less(Num(t), expiry)
     THEN MapGet(s.cache, cacheKey)
     ELSE Null

\* (mutant) a stale entry loses its value and keeps its expiry
evictValueOnly(state, cacheKey, t) ==
  CHOOSE result \in {
      LET expiry == MapGet(s.cacheExpiry, cacheKey)
      IN IF Truthy(expiry) /\ GreaterEq(Num(t), expiry)
         THEN [s EXCEPT !.cache = MapDelete(@, cacheKey)]
         ELSE s
    : s \in {state}} : TRUE

\* The state getFromCache(cacheKey) leaves at time t
getFromCacheState(state, cacheKey, t) ==
  CHOOSE result \in {
      LET expiry == MapGet(s.cacheExpiry, cacheKey)
      IN IF Truthy(expiry) /\ Less(Num(t), expiry)
         THEN s
         ELSE IF Truthy(expiry) /\ GreaterEq(Num(t), expiry)
              THEN [s EXCEPT !.cache = MapDelete(@, cacheKey),
                             !.cacheExpiry = MapDelete(@, cacheKey)]
              ELSE s
    : s \in {state}} : TRUE

\* getFromCache(cacheKey) at time t, the call recorded in the history
getFromCache(state, cacheKey, t) ==
  CHOOSE result \in {
      LET after == getFromCacheState(s, cacheKey, t)
          op == [op |-> "get", key |-> cacheKey,
                 hadValue |-> cacheKey \in DOMAIN s.cache,
                 hadExpiry |-> cacheKey \in DOMAIN s.cacheExpiry,
                 value |-> MapGet(s.cache, cacheKey),
                 expiry |-> MapGet(s.cacheExpiry, cacheKey),
                 returned |-> getFromCacheValue(s, cacheKey, t),
                 keptValue |-> cacheKey \in DOMAIN after.cache,
                 keptExpiry |-> cacheKey \in DOMAIN after.cacheExpiry,
                 cacheType |-> "", at |-> t]
      IN [after EXCEPT !.lastCacheOps = Append(@, op)]
    : s \in {state}} : TRUE

\* setCache(cacheKey, data, cacheType) at time t
setCache(state, cacheKey, data, cacheType, t) ==
  CHOOSE result \in {
      LET duration == OrElse(DurationOf(cacheType), DurationOf("default"))
          expiry == Plus(Num(t), duration)
          s1 == [s EXCEPT !.cache = MapSet(@, cacheKey, data),
                          !.cacheExpiry = MapSet(@, cacheKey, expiry),
                          !.lastCacheOps = Append(@,
                             [op |-> "set", key |-> cacheKey,
                              hadValue |-> cacheKey \in DOMAIN s.cache,
                              hadExpiry |-> cacheKey \in DOMAIN s.cacheExpiry,
                              value |-> data, expiry |-> expiry, returned |-> Undefined,
                              keptValue |-> TRUE, keptExpiry |-> TRUE,
                              cacheType |-> cacheType, at |-> t])]
      IN IF Cardinality(DOMAIN s1.cache) % saveEvery = 0
         THEN saveCacheToFile(s1)
         ELSE s1
    : s \in {state}} : TRUE

\* The file after a write that was cut short: JSON.parse throws on it
Corrupt == <<"corrupt">>

\* expiry <= now, as JavaScript compares: null is 0, NaN is below nothing
LessEq(a, b) == GreaterEq(b, a)

\* (mutant) nothing is cleaned
keepExpired(state, t) == state

\* cleanExpiredCache at time t: every key whose expiry is <= t leaves both maps
cleanExpiredCache(state, t) ==
  CHOOSE result \in {
      LET expired == {k \in DOMAIN s.cacheExpiry : LessEq(s.cacheExpiry[k], Num(t))}
      IN [s EXCEPT !.cache = [k \in (DOMAIN s.cache) \ expired |-> s.cache[k]],
                   !.cacheExpiry = [k \in (DOMAIN s.cacheExpiry) \ expired |->
                                      s.cacheExpiry[k]]]
    : s \in {state}} : TRUE

\* loadCacheFromFile at time t: nothing without a file, nothing (and a
\* warning) when the file does not parse, else both maps as the file holds
\* them, cleaned of the expired entries
loadCacheFromFile(state, t) ==
  CHOOSE result \in {
      IF s.cacheFile = Undefined \/ s.cacheFile = Corrupt THEN s
      ELSE cleanExpiredCache([s EXCEPT !.cache = s.cacheFile[2],
                                       !.cacheExpiry = s.cacheFile[3]], t)
    : s \in {state}} : TRUE

\* (mutant) the file is left where it is
keepFile(state) == state

\* fs.unlinkSync(this.cacheFile), when the file exists
removeFile(state) == [state EXCEPT !.cacheFile = Undefined]

\* clearCache(): both maps cleared, the file removed
clearCache(state) ==
  CHOOSE result \in {
      removeFile([s EXCEPT !.cache = EmptyMap, !.cacheExpiry = EmptyMap,
                           !.lastCacheOps = Append(@,
                              [op |-> "clear", hadEntries |-> DOMAIN s.cache # {},
                               hadFile |-> s.cacheFile # Undefined])])
    : s \in {state}} : TRUE

\* (mutant) a handler that ends the process without saving
exitWithoutSave(state) == state

\* The handlers of 'exit', 'SIGINT' and 'SIGTERM': this.saveCacheToFile(),
\* and process.exit(0) in the two for signals
exitHandler(state) == saveCacheToFile(state)

\* (mutant) every credential counts as given
NeverMissing(value) == FALSE

\* !this.accessToken, !this.adAccountId: the variable is not set, or is empty
Missing(value) == value = Undefined \/ value = <<"string", "">>

\* new MetaService() at time t, in a process that finds cacheFile on the
\* disk: the object as the constructor left it, and the Error it threw
constructor(file, environment, t) ==
  LET fresh == [cache |-> EmptyMap, cacheExpiry |-> EmptyMap, cacheFile |-> file,
                requestQueue |-> <<>>, isProcessingQueue |-> FALSE,
                lastRequestTime |-> 0, requests |-> <<>>, promise |-> <<>>,
                drain |-> <<>>, calls |-> <<>>, dispatchLog |-> <<>>,
                lastCacheOps |-> <<>>]
  IN [state |-> loadCacheFromFile(fresh, t),
      thrown |-> IF Missing(environment.META_ACCESS_TOKEN)
                 THEN <<"Error", "META_ACCESS_TOKEN is required">>
                 ELSE IF Missing(environment.META_AD_ACCOUNT_ID)
                 THEN <<"Error", "META_AD_ACCOUNT_ID is required">>
                 ELSE Undefined]

(* -------------------------------------------------------------- promises *)
\* resolve / reject of the promise makeRequest returned: the first call
\* settles it, and every call is counted
Settle(state, r, outcome, value) ==
  CHOOSE result \in {
      [s EXCEPT !.promise[r] =
         [@ EXCEPT !.state = IF @ = "pending" THEN outcome ELSE @,
                   !.value = IF s.promise[r].state = "pending" THEN value ELSE @,
                   !.settles = @ + 1]]
    : s \in {state}} : TRUE

\* request.resolve(result)
resolveRequest(s, r, result) == Settle(s, r, "resolved", result)

\* (mutant) the failure is dropped
rejectDropped(s, r, error) == s

\* request.reject(error)
rejectRequest(s, r, error) == Settle(s, r, "rejected", error)

(* ---------------------------------------------------------------- errors *)
\* An error is <<"Error", message, response>>; response is Undefined or
\* <<"httpResponse", status>>
ErrorResponse(e) == e[3]

\* What axios.get throws: an HTTP error status carries error.response
AxiosError(status) == <<"Error", "http", <<"httpResponse", status>>>>
NetworkError == <<"Error", "timeout", Undefined>>

\* What executeRequest's catch throws: a new Error with the message only
WrapError(e) == <<"Error", e[2], Undefined>>

\* (mutant) every failure is taken for a rate limit
AnyFailure(e) == TRUE

\* error.response && error.response.status === 429
IsRateLimited(e) == Truthy(ErrorResponse(e)) /\ ErrorResponse(e)[2] = 429

(* ------------------------------------------------------------ drain loop *)
IdleDrain == [pc |-> "idle", req |-> 0, wake |-> 0, outcome |-> <<"none">>]

\* (mutant) the nonce is not looked at
BypassNever(params) == FALSE

\* if (!params._t): the request consults the cache
BypassesCache(params) == ParamTruthy(params, "_t")

\* The request's parameters without the nonce
WithoutNonce(params) == SelectSeq(params, LAMBDA p : p[1] # "_t")

\* executeRequest up to its first await, called by drain loop i at time t:
\* a cache hit settles the call, a miss (or a bypass) issues the HTTP GET
executeRequestStart(state, i, t) ==
  CHOOSE result \in {
      LET r == s.drain[i].req
          rq == s.requests[r]
          cacheKey == getCacheKey(rq.endpoint, rq.params)
          bypass == BypassesCache(rq.params)
          cachedData == IF bypass THEN Null ELSE getFromCacheValue(s, cacheKey, t)
          s1 == IF bypass THEN s ELSE getFromCache(s, cacheKey, t)
          plainKey == getCacheKey(rq.endpoint, WithoutNonce(rq.params))
          entry == [req |-> r, began |-> t, http |-> ~Truthy(cachedData),
                    live |-> Truthy(getFromCacheValue(s, plainKey, t))]
          s2 == [s1 EXCEPT !.dispatchLog = Append(@, entry)]
      IN IF Truthy(cachedData)
         THEN [s2 EXCEPT !.drain[i] =
                 [pc |-> "settled", req |-> r, wake |-> 0, outcome |-> <<"ok", cachedData>>]]
         ELSE [s2 EXCEPT !.drain[i] =
                 [pc |-> "http", req |-> r, wake |-> 0, outcome |-> <<"none">>]]
    : s \in {state}} : TRUE

\* (mutant) pop() in place of shift()
TakeLast(q) == [request |-> q[Len(q)], rest |-> SubSeq(q, 1, Len(q) - 1)]

\* this.requestQueue.shift()
TakeRequest(q) == [request |-> Head(q), rest |-> Tail(q)]

\* The while loop of processRequestQueue from its test to the next await
processLoop(state, i, t) ==
  CHOOSE result \in {
      IF Len(s.requestQueue) = 0
      THEN [s EXCEPT !.isProcessingQueue = FALSE, !.drain[i] = IdleDrain]
      ELSE LET taken == TakeRequest(s.requestQueue)
               s1 == [s EXCEPT !.requestQueue = taken.rest,
                               !.drain[i] = [IdleDrain EXCEPT !.req = taken.request]]
               timeSinceLastRequest == t - s.lastRequestTime
           IN IF timeSinceLastRequest < requestDelay
              THEN [s1 EXCEPT !.drain[i].pc = "throttle",
                              !.drain[i].wake = t + (requestDelay - timeSinceLastRequest)]
              ELSE executeRequestStart(s1, i, t)
    : s \in {state}} : TRUE

\* (mutant) the isProcessingQueue test left out
DrainStartsWhenQueued(s) == Len(s.requestQueue) # 0

\* if (this.isProcessingQueue || this.requestQueue.length === 0) return;
DrainMayStart(s) == ~(s.isProcessingQueue \/ Len(s.requestQueue) = 0)

\* processRequestQueue() called for request i, up to its first await
processRequestQueue(state, i, t) ==
  CHOOSE result \in {
      IF DrainMayStart(s)
      THEN processLoop([s EXCEPT !.isProcessingQueue = TRUE], i, t)
      ELSE s
    : s \in {state}} : TRUE

\* makeRequest(endpoint, params, cacheType); owner is the getAdInsights call
\* that awaits it (0: another caller)
makeRequest(state, endpoint, params, cacheType, owner, t) ==
  CHOOSE result \in {
      LET id == Len(s.requests) + 1
          s1 == [s EXCEPT
                   !.requests = Append(@, [endpoint |-> endpoint, params |-> params,
                                           cacheType |-> cacheType, owner |-> owner]),
                   !.promise = Append(@, [state |-> "pending", value |-> Undefined,
                                          settles |-> 0, upstream |-> Undefined]),
                   !.drain = Append(@, IdleDrain),
                   !.requestQueue = Append(@, id)]
      IN processRequestQueue(s1, id, t)
    : s \in {state}} : TRUE

\* (mutant) what axios.get ended with is stored, an error included
storeAnyOutcome(state, i, out, t) ==
  CHOOSE result \in {
      LET r == s.drain[i].req
          rq == s.requests[r]
          cacheKey == getCacheKey(rq.endpoint, rq.params)
          seen == [s EXCEPT !.promise[r].upstream =
                     IF out[1] = "ok" THEN <<"httpResponse", 200>> ELSE ErrorResponse(out[2])]
          stored == setCache(seen, cacheKey, out[2], rq.cacheType, t)
      IN [stored EXCEPT !.drain[i].pc = "settled",
                        !.drain[i].outcome =
                          IF out[1] = "ok" THEN out ELSE <<"error", WrapError(out[2])>>]
    : s \in {state}} : TRUE

\* executeRequest after axios.get settled with `out`: <<"ok", payload>> or
\* <<"error", axios error>>
executeRequestFinish(state, i, out, t) ==
  CHOOSE result \in {
      LET r == s.drain[i].req
          rq == s.requests[r]
          cacheKey == getCacheKey(rq.endpoint, rq.params)
          seen == [s EXCEPT !.promise[r].upstream =
                     IF out[1] = "ok" THEN <<"httpResponse", 200>> ELSE ErrorResponse(out[2])]
      IN IF out[1] = "ok"
         THEN [setCache(seen, cacheKey, out[2], rq.cacheType, t)
                 EXCEPT !.drain[i].pc = "settled", !.drain[i].outcome = out]
         ELSE [seen EXCEPT !.drain[i].pc = "settled",
                           !.drain[i].outcome = <<"error", WrapError(out[2])>>]
    : s \in {state}} : TRUE

\* (mutant) a failure ends the drain loop where it is
loopEndsAtFailure(state, i, t) ==
  CHOOSE result \in {
      LET r == s.drain[i].req
          out == s.drain[i].outcome
      IN IF out[1] = "ok"
         THEN processLoop([resolveRequest(s, r, out[2]) EXCEPT !.lastRequestTime = t], i, t)
         ELSE [rejectRequest(s, r, out[2]) EXCEPT !.isProcessingQueue = FALSE,
                                                  !.drain[i] = IdleDrain]
    : s \in {state}} : TRUE

\* processRequestQueue after `await this.executeRequest(...)` settled
drainResume(state, i, t) ==
  CHOOSE result \in {
      LET r == s.drain[i].req
          out == s.drain[i].outcome
      IN IF out[1] = "ok"
         THEN processLoop([resolveRequest(s, r, out[2]) EXCEPT !.lastRequestTime = t], i, t)
         ELSE IF IsRateLimited(out[2])
              THEN [s EXCEPT !.drain[i].pc = "backoff", !.drain[i].wake = t + backoffDelay]
              ELSE processLoop(rejectRequest(s, r, out[2]), i, t)
    : s \in {state}} : TRUE

\* processRequestQueue after one of its two timers fired
timerFired(state, i, t) ==
  CHOOSE result \in {
      IF s.drain[i].pc = "throttle"
      THEN executeRequestStart(s, i, t)
      ELSE processLoop([s EXCEPT !.requestQueue = <<s.drain[i].req>> \o @], i, t)
    : s \in {state}} : TRUE

(* --------------------------------------------------------- getAdInsights *)
\* The upstream's JSON answers: <<"response", data>>, data being "undefined"
\* (no data field), "empty" (data: []) or the one record of data
PayloadData == {"undefined", "empty", "r1", "r2"}
Payloads == {<<"response", d>> : d \in PayloadData}

\* (mutant) the data field is not looked at
AlwaysData(response) == TRUE

\* if (response.data)
HasData(response) == response[2] # "undefined"

\* response.data[0] || {}
FirstRecord(response) == IF response[2] = "empty" THEN "{}" ELSE response[2]

\* processAdInsightsData(insightData): the metrics, score and dates of the record
processAdInsightsData(insightData) == <<"insights", insightData>>

\* `ad_insights_${adId}_${dateRange}`
AdInsightsKey(adId, dateRange) == <<"ad_insights_", adId, "_", dateRange>>

\* The attribution windows of the three approaches, in list order
Approaches == <<"1d_click", "7d_click", "1d_view">>

DatePreset(dateRange) ==
  CASE dateRange = "today" -> "today"
    [] dateRange = "yesterday" -> "yesterday"
    [] dateRange = "7d" -> "last_7d"
    [] dateRange = "30d" -> "last_30d"
    [] OTHER -> "last_7d"

\* (mutant) every approach asks with the first approach's parameters
FirstApproachParams(a, dateRange, nonce) ==
  << <<"fields", "insight_fields">>,
     <<"date_preset", DatePreset(dateRange)>>,
     <<"attribution_window", Approaches[1]>> >>
  \o (IF nonce # "" THEN << <<"_t", nonce>> >> ELSE <<>>)

\* approach.params, with _t added when the nonce is truthy
ApproachParams(a, dateRange, nonce) ==
  << <<"fields", "insight_fields">>,
     <<"date_preset", DatePreset(dateRange)>>,
     <<"attribution_window", Approaches[a]>> >>
  \o (IF nonce # "" THEN << <<"_t", nonce>> >> ELSE <<>>)

\* One turn of the approaches loop of call c: makeRequest for approach a
tryApproach(state, c, a, t) ==
  CHOOSE result \in {
      LET call == s.calls[c]
          s1 == makeRequest(s, <<call.adId, "/insights">>,
                            ApproachParams(a, call.dateRange, call.nonce),
                            "ad_insights", c, t)
      IN [s1 EXCEPT !.calls[c].pc = "await",
                    !.calls[c].approach = a,
                    !.calls[c].req = Len(s1.requests)]
    : s \in {state}} : TRUE

\* getAdInsights(adId, dateRange, _t) up to its first await (or its return)
getAdInsightsStart(state, adId, dateRange, nonce, t) ==
  CHOOSE result \in {
      LET c == Len(s.calls) + 1
          cacheKey == AdInsightsKey(adId, dateRange)
          consult == nonce = ""
          cachedData == IF consult THEN getFromCacheValue(s, cacheKey, t) ELSE Null
          s1 == IF consult THEN getFromCache(s, cacheKey, t) ELSE s
          call == [method |-> "getAdInsights",
                   adId |-> adId, dateRange |-> dateRange, nonce |-> nonce,
                   pc |-> "start", approach |-> 0, req |-> 0, result |-> Undefined,
                   startedAt |-> t, returnedAt |-> 0,
                   after |-> {k \in 1..Len(s.calls) :
                                s.calls[k].pc = "returned" /\ s.calls[k].result # Null}]
          s2 == [s1 EXCEPT !.calls = Append(@, call)]
      IN IF Truthy(cachedData)
         THEN [s2 EXCEPT !.calls[c].pc = "returned",
                         !.calls[c].result = cachedData,
                         !.calls[c].returnedAt = t]
         ELSE tryApproach(s2, c, 1, t)
    : s \in {state}} : TRUE

\* (mutant) the total failure is stored under the per-ad key
cachesFailure(state, c, t) ==
  CHOOSE result \in {
      LET call == s.calls[c]
          p == s.promise[call.req]
          accepted == p.state = "resolved" /\ HasData(p.value)
          processedData == processAdInsightsData(FirstRecord(p.value))
          cacheKey == AdInsightsKey(call.adId, call.dateRange)
      IN IF accepted
         THEN [setCache(s, cacheKey, processedData, "300", t)
                 EXCEPT !.calls[c].pc = "returned",
                        !.calls[c].result = processedData,
                        !.calls[c].returnedAt = t]
         ELSE IF call.approach < Len(Approaches)
              THEN tryApproach(s, c, call.approach + 1, t)
              ELSE [setCache(s, cacheKey, Null, "300", t)
                      EXCEPT !.calls[c].pc = "returned",
                             !.calls[c].result = Null,
                             !.calls[c].returnedAt = t]
    : s \in {state}} : TRUE

\* getAdInsights after `await this.makeRequest(...)` settled
getAdInsightsResume(state, c, t) ==
  CHOOSE result \in {
      LET call == s.calls[c]
          p == s.promise[call.req]
          accepted == p.state = "resolved" /\ HasData(p.value)
          processedData == processAdInsightsData(FirstRecord(p.value))
      IN IF accepted
         THEN [setCache(s, AdInsightsKey(call.adId, call.dateRange), processedData, "300", t)
                 EXCEPT !.calls[c].pc = "returned",
                        !.calls[c].result = processedData,
                        !.calls[c].returnedAt = t]
         ELSE IF call.approach < Len(Approaches)
              THEN tryApproach(s, c, call.approach + 1, t)
              ELSE [s EXCEPT !.calls[c].pc = "returned",
                             !.calls[c].result = Null,
                             !.calls[c].returnedAt = t]
    : s \in {state}} : TRUE

(* ------------------------------------------------- getAdSpecificInsights *)
\* getDateRange(range): since and until as days, "D0" being today
getDateRange(range) ==
  CASE range \in {"today", "24h", "1d"} -> [since |-> "D0", until |-> "D0"]
    [] range = "yesterday" -> [since |-> "D-1", until |-> "D-1"]
    [] range = "7d" -> [since |-> "D-7", until |-> "D0"]
    [] range = "30d" -> [since |-> "D-30", until |-> "D0"]
    [] range = "90d" -> [since |-> "D-90", until |-> "D0"]
    [] OTHER -> [since |-> "D0", until |-> "D0"]

\* date_start and date_stop of the records the upstream answers with: r1 is a
\* record of today, r2 a record that spans the last seven days, {} has neither
DateStart(record) ==
  CASE record = "r1" -> "D0" [] record = "r2" -> "D-7" [] OTHER -> ""
DateStop(record) ==
  CASE record = "r1" -> "D0" [] record = "r2" -> "D0" [] OTHER -> ""

\* response.data && response.data[0]
HasRecord(response) == response[2] \notin {"undefined", "empty"}

\* data.date_start && data.date_stop && data.date_start === data.date_stop
\* && data.date_start === timeRange.since
IsDateSpecific(record, dateRange) ==
  /\ DateStart(record) # "" /\ DateStop(record) # ""
  /\ DateStart(record) = DateStop(record)
  /\ DateStart(record) = getDateRange(dateRange).since

\* The approaches of getAdSpecificInsights, in list order
SpecificApproaches == <<"time_range_1d_click", "time_range_7d_click", "date_preset_today">>

SpecificDatePreset(dateRange) ==
  CASE dateRange = "today" -> "today"
    [] dateRange = "yesterday" -> "yesterday"
    [] OTHER -> "last_7d"

\* approach.params of approach a
SpecificParams(a, dateRange) ==
  CASE a = 1 -> << <<"fields", "specific_fields">>, <<"time_range", dateRange>>,
                   <<"attribution_window", "1d_click">> >>
    [] a = 2 -> << <<"fields", "specific_fields">>, <<"time_range", dateRange>>,
                   <<"attribution_window", "7d_click">> >>
    [] OTHER -> << <<"fields", "specific_fields">>,
                   <<"date_preset", SpecificDatePreset(dateRange)>>,
                   <<"attribution_window", "1d_click">> >>

\* One turn of the approaches loop of getAdSpecificInsights call c
trySpecificApproach(state, c, a, t) ==
  CHOOSE result \in {
      LET call == s.calls[c]
          s1 == makeRequest(s, <<call.adId, "/insights">>,
                            SpecificParams(a, call.dateRange),
                            "ad_specific_" \o SpecificApproaches[a] \o "_" \o call.adId,
                            c, t)
      IN [s1 EXCEPT !.calls[c].pc = "await",
                    !.calls[c].approach = a,
                    !.calls[c].req = Len(s1.requests)]
    : s \in {state}} : TRUE

\* getAdSpecificInsights(adId, dateRange) up to its first await
getAdSpecificInsightsStart(state, adId, dateRange, t) ==
  CHOOSE result \in {
      LET c == Len(s.calls) + 1
          call == [method |-> "getAdSpecificInsights",
                   adId |-> adId, dateRange |-> dateRange, nonce |-> "",
                   pc |-> "start", approach |-> 0, req |-> 0, result |-> Undefined,
                   startedAt |-> t, returnedAt |-> 0, after |-> {}]
      IN trySpecificApproach([s EXCEPT !.calls = Append(@, call)], c, 1, t)
    : s \in {state}} : TRUE

\* getAdSpecificInsights after `await this.makeRequest(...)` settled
getAdSpecificInsightsResume(state, c, t) ==
  CHOOSE result \in {
      LET call == s.calls[c]
          p == s.promise[call.req]
          accepted == /\ p.state = "resolved"
                      /\ HasRecord(p.value)
                      /\ IsDateSpecific(p.value[2], call.dateRange)
      IN IF accepted
         THEN [s EXCEPT !.calls[c].pc = "returned",
                        !.calls[c].result = <<"record", p.value[2]>>,
                        !.calls[c].returnedAt = t]
         ELSE IF call.approach < Len(SpecificApproaches)
              THEN trySpecificApproach(s, c, call.approach + 1, t)
              ELSE [s EXCEPT !.calls[c].pc = "returned",
                             !.calls[c].result = Null,
                             !.calls[c].returnedAt = t]
    : s \in {state}} : TRUE

(* ------------------------------------------------- the two getAdInsights *)
\* class MetaService defines getAdInsights twice, in this order; a class body
\* binds a name to the definition that comes last
MethodDefinitions ==
  <<[name |-> "getAdInsights", form |-> "options"],
    [name |-> "getAdInsights", form |-> "adId"]>>

MethodBound(name) ==
  MethodDefinitions[CHOOSE i \in 1..Len(MethodDefinitions) :
                      /\ MethodDefinitions[i].name = name
                      /\ \A j \in 1..Len(MethodDefinitions) :
                           MethodDefinitions[j].name = name => j <= i]

\* `${adId}` when adId is the options object of the route
ObjectAsString == "[object Object]"

\* The approaches of getAdInsights({dateRange, limit, status, ...}), in list order
BatchApproaches ==
  <<[name |-> "direct_insights", window |-> "7d_click", preset |-> FALSE],
    [name |-> "direct_insights_1d_view", window |-> "1d_view", preset |-> FALSE],
    [name |-> "direct_insights_7d_view", window |-> "7d_view", preset |-> FALSE],
    [name |-> "direct_insights_preset", window |-> "1d_click", preset |-> TRUE]>>

BatchDatePreset(dateRange) ==
  CASE dateRange = "today" -> "today"
    [] dateRange = "yesterday" -> "yesterday"
    [] dateRange = "7d" -> "last_7d"
    [] OTHER -> "last_30d"

\* approach.params of approach a
BatchParams(a, dateRange) ==
  << <<"fields", "ad_fields">>, <<"level", "ad">>, <<"limit", "50">> >>
  \o (IF BatchApproaches[a].preset
      THEN << <<"date_preset", BatchDatePreset(dateRange)>> >>
      ELSE << <<"time_range", dateRange>> >>)
  \o << <<"attribution_window", BatchApproaches[a].window>> >>

\* getAdInsights({dateRange, limit, status, ...}) up to its first await: the
\* request of its first approach, to the account's insights endpoint
getAdInsightsOptionsStart(state, dateRange, t) ==
  CHOOSE result \in {
      LET c == Len(s.calls) + 1
          call == [method |-> "getAdInsights(options)",
                   adId |-> "", dateRange |-> dateRange, nonce |-> "",
                   pc |-> "await", approach |-> 1, req |-> Len(s.requests) + 1,
                   result |-> Undefined, startedAt |-> t, returnedAt |-> 0,
                   after |-> {}]
      IN makeRequest([s EXCEPT !.calls = Append(@, call)],
                     <<"act_1", "/insights">>, BatchParams(1, dateRange),
                     "ad_insights_" \o BatchApproaches[1].name, c, t)
    : s \in {state}} : TRUE

\* router.get('/ad-insights'): metaService.getAdInsights({dateRange, limit,
\* status}) up to its first await.  Bound to the (adId, dateRange, _t) form, the
\* object is adId, and dateRange and _t take their defaults
routeAdInsights(state, dateRange, t) ==
  IF MethodBound("getAdInsights").form = "options"
  THEN getAdInsightsOptionsStart(state, dateRange, t)
  ELSE getAdInsightsStart(state, ObjectAsString, "today", "", t)

(* --------------------------------------------------------------- scoring *)
\* The upstream reports a metric as a decimal string; h hundredths is the
\* string of h / 100 ("12.35" is Money(1235))
Money(h) == <<"decimal", h>>
Hundredths(v) == v[2]

\* An array of the upstream, apart from a field that is missing
ArrayOf(elements) == <<"array", elements>>
Elements(array) == array[2]

\* v || 0: a missing field is 0, a decimal string is itself (it is not empty)
OrZero(v) == IF v = Undefined THEN Money(0) ELSE v

\* parseFloat: the number nearest to the decimal; parseInt: its whole part
parseFloat(v) == Decimal(Hundredths(v), 100)
parseInt(v) == Hundredths(v) \div 100

\* What a call gives back: a number, or the TypeError it threw
TypeError == <<"TypeError">>

\* actionType.includes(word), for the words calculateROASScore looks for
Including ==
  [purchase |-> {"purchase", "omni_purchase", "offsite_conversion.fb_pixel_purchase",
                 "onsite_web_purchase", "onsite_web_app_purchase",
                 "web_in_store_purchase"},
   sale |-> {},
   order |-> {},
   checkout |-> {"initiate_checkout", "offsite_conversion.fb_pixel_initiate_checkout"},
   view_content |-> {"view_content"},
   add_to_cart |-> {"add_to_cart", "offsite_conversion.fb_pixel_add_to_cart"},
   initiate_checkout |-> {"initiate_checkout",
                          "offsite_conversion.fb_pixel_initiate_checkout"}]

\* The filter of calculateROASScore, on an action type in lower case
IsPurchaseType(actionType) ==
  /\ \/ actionType \in Including.purchase
     \/ actionType = "conversion"
     \/ actionType \in Including.sale
     \/ actionType \in Including.order
     \/ actionType \in Including.checkout
  /\ actionType \notin Including.view_content
  /\ actionType \notin Including.add_to_cart
  /\ actionType \notin Including.initiate_checkout

\* Math.max(...values), for values not empty
MathMax(values) == CHOOSE v \in values : \A w \in values : DoubleLeq(w, v)

\* The first tier of a table whose bound x does not pass
RECURSIVE TierBelow(_, _)
TierBelow(x, tiers) ==
  IF tiers = <<>> THEN 0
  ELSE IF DoubleLeq(x, Head(tiers).from) THEN Head(tiers).score
  ELSE TierBelow(x, Tail(tiers))

\* The first tier of a table that x reaches (x >= tier.from), or 0
RECURSIVE TierFrom(_, _)
TierFrom(x, tiers) ==
  IF tiers = <<>> THEN 0
  ELSE IF DoubleLeq(Head(tiers).from, x) THEN Head(tiers).score
  ELSE TierFrom(x, Tail(tiers))

\* The first tier of a table that x stays within (x <= tier.upTo), or 0
RECURSIVE TierUpTo(_, _)
TierUpTo(x, tiers) ==
  IF tiers = <<>> THEN 0
  ELSE IF DoubleLeq(x, Head(tiers).upTo) THEN Head(tiers).score
  ELSE TierUpTo(x, Tail(tiers))

\* if (roas >= 4.0) return 100; else if (roas >= 3.0) return 90; ...
roasTiers ==
  << [from |-> Decimal(40, 10), score |-> 100],
     [from |-> Decimal(30, 10), score |-> 90],
     [from |-> Decimal(25, 10), score |-> 80],
     [from |-> Decimal(20, 10), score |-> 70],
     [from |-> Decimal(15, 10), score |-> 60],
     [from |-> Decimal(10, 10), score |-> 50],
     [from |-> Decimal(5, 10), score |-> 30] >>

\* if (ctr >= 3.0) return 100; else if (ctr >= 2.0) return 90; ...
ctrTiers ==
  << [from |-> Decimal(30, 10), score |-> 100],
     [from |-> Decimal(20, 10), score |-> 90],
     [from |-> Decimal(15, 10), score |-> 80],
     [from |-> Decimal(10, 10), score |-> 70],
     [from |-> Decimal(5, 10), score |-> 60],
     [from |-> Decimal(3, 10), score |-> 50],
     [from |-> Decimal(1, 10), score |-> 30] >>

\* if (cpm <= 5) return 100; else if (cpm <= 10) return 90; ...
cpmTiers ==
  << [upTo |-> FromInt(5), score |-> 100],
     [upTo |-> FromInt(10), score |-> 90],
     [upTo |-> FromInt(15), score |-> 80],
     [upTo |-> FromInt(20), score |-> 70],
     [upTo |-> FromInt(30), score |-> 60],
     [upTo |-> FromInt(50), score |-> 50],
     [upTo |-> FromInt(75), score |-> 30],
     [upTo |-> FromInt(100), score |-> 10] >>

\* if (cpc <= 0.5) return 100; else if (cpc <= 1.0) return 90; ...
cpcTiers ==
  << [upTo |-> Decimal(5, 10), score |-> 100],
     [upTo |-> Decimal(10, 10), score |-> 90],
     [upTo |-> Decimal(15, 10), score |-> 80],
     [upTo |-> Decimal(20, 10), score |-> 70],
     [upTo |-> Decimal(30, 10), score |-> 60],
     [upTo |-> Decimal(50, 10), score |-> 50],
     [upTo |-> Decimal(80, 10), score |-> 30],
     [upTo |-> Decimal(120, 10), score |-> 10] >>

\* if (clicks >= 1000) volumeScore = 100; else if (clicks >= 500) ...
RECURSIVE VolumeFrom(_, _)
VolumeFrom(clicks, tiers) ==
  IF tiers = <<>> THEN 0
  ELSE IF clicks >= Head(tiers).from THEN Head(tiers).score
  ELSE VolumeFrom(clicks, Tail(tiers))

volumeTiers ==
  << [from |-> 1000, score |-> 100], [from |-> 500, score |-> 90],
     [from |-> 200, score |-> 80], [from |-> 100, score |-> 70],
     [from |-> 50, score |-> 60], [from |-> 20, score |-> 50],
     [from |-> 10, score |-> 40], [from |-> 5, score |-> 30],
     [from |-> 1, score |-> 20] >>

\* calculateROASScore(insights, spend): a number, or the TypeError of
\* action.action_type.toLowerCase() on an action without a type
calculateROASScore(record, spend) ==
  IF spend = Zero THEN Num(0)
  ELSE LET actionValues ==
             IF record.action_values = Undefined THEN <<>>
             ELSE Elements(record.action_values)
           purchaseActionValues ==
             { i \in 1..Len(actionValues) :
                 IsPurchaseType(actionValues[i].action_type) }
           uniqueValues ==
             { parseFloat(OrZero(actionValues[i].value)) : i \in purchaseActionValues }
           totalConversionValue ==
             IF purchaseActionValues # {} THEN MathMax(uniqueValues) ELSE Zero
           roas == DoubleDiv(totalConversionValue, spend)
       IN IF \E i \in 1..Len(actionValues) :
               "action_type" \notin DOMAIN actionValues[i]
          THEN TypeError
          ELSE IF DoubleLeq(roasTiers[Len(roasTiers)].from, roas)
          THEN Num(TierFrom(roas, roasTiers))
          ELSE IF DoubleLess(Zero, roas) THEN Num(10)
          ELSE Num(0)

\* calculateCTRScore(ctr)
calculateCTRScore(ctr) ==
  IF DoubleLeq(ctrTiers[Len(ctrTiers)].from, ctr) THEN TierFrom(ctr, ctrTiers)
  ELSE IF DoubleLess(Zero, ctr) THEN 10
  ELSE 0

\* calculateClickScore(clicks, impressions)
calculateClickScore(clicks, impressions) ==
  IF impressions = 0 THEN 0
  ELSE LET clickRate ==
             DoubleMul(DoubleDiv(FromInt(clicks), FromInt(impressions)), FromInt(100))
           volumeScore == VolumeFrom(clicks, volumeTiers)
           rateScore == MathMin(DoubleMul(clickRate, FromInt(20)), FromInt(100))
       IN IF clicks < 1 THEN 0
          ELSE MathRound(DoubleAdd(DoubleMul(rateScore, Decimal(7, 10)),
                                   DoubleMul(FromInt(volumeScore), Decimal(3, 10))))

\* calculateCPMScore(cpm)
calculateCPMScore(cpm) == TierUpTo(cpm, cpmTiers)

\* calculateCPCScore(cpc, clicks)
calculateCPCScore(cpc, clicks) ==
  IF clicks = 0 THEN 0 ELSE TierUpTo(cpc, cpcTiers)

weights ==
  [roas |-> Decimal(40, 100), ctr |-> Decimal(25, 100), clicks |-> Decimal(20, 100),
   cpm |-> Decimal(8, 100), cpc |-> Decimal(7, 100)]

\* scores.roas * weights.roas + ... + scores.cpc * weights.cpc, added from the left
WeightedScore(of) ==
  DoubleAdd(
    DoubleAdd(
      DoubleAdd(
        DoubleAdd(DoubleMul(FromInt(NumVal(of.roas)), weights.roas),
                  DoubleMul(FromInt(of.ctr), weights.ctr)),
        DoubleMul(FromInt(of.clicks), weights.clicks)),
      DoubleMul(FromInt(of.cpm), weights.cpm)),
    DoubleMul(FromInt(of.cpc), weights.cpc))

\* if (spend === 0 || impressions === 0) return 0
NoSpend(spend, impressions) == spend = Zero
NoDelivery(spend, impressions) == spend = Zero \/ impressions = 0

\* calculatePerformanceScore(insights): its local scores and what it returns
calculatePerformanceScore(record) ==
  LET spend == parseFloat(OrZero(record.spend))
      impressions == parseInt(OrZero(record.impressions))
      clicks == parseInt(OrZero(record.clicks))
      ctr == parseFloat(OrZero(record.ctr))
      cpm == parseFloat(OrZero(record.cpm))
      cpc == parseFloat(OrZero(record.cpc))
  IN IF NoDelivery(spend, impressions)
     THEN [scores |-> Undefined, result |-> Num(0)]
     ELSE CHOOSE outcome \in
       { IF roas = TypeError
         THEN [scores |-> Undefined, result |-> TypeError]
         ELSE LET of == [roas |-> roas,
                         ctr |-> calculateCTRScore(ctr),
                         clicks |-> calculateClickScore(clicks, impressions),
                         cpm |-> calculateCPMScore(cpm),
                         cpc |-> calculateCPCScore(cpc, clicks)]
              IN [scores |-> <<"scores", of>>,
                  result |-> Num(MathRound(MathMin(WeightedScore(of), FromInt(100))))] :
         roas \in {calculateROASScore(record, spend)} } : TRUE

(* ------------------------------------------------------------ enrichment *)
\* A JavaScript number that a division produced: a finite number, Infinity,
\* or NaN
Double(d) == <<"double", d>>
Infinity == <<"Infinity">>
IsDouble(v) == v[1] = "double"

\* x / y, for x and y finite and not negative
Divide(x, y) ==
  IF y.m = <<>> THEN (IF x.m = <<>> THEN NaN ELSE Infinity)
  ELSE Double(DoubleDiv(x, y))

\* v * y, for y finite and positive
Times(v, y) == IF IsDouble(v) THEN Double(DoubleMul(v[2], y)) ELSE v

RECURSIVE Pow10(_)
Pow10(digits) == IF digits = 0 THEN 1 ELSE 10 * Pow10(digits - 1)

\* x.toFixed(digits) as the whole number n of its digits: n / 10^digits is
\* the decimal nearest to x, the larger one when two are as near
toFixed(x, digits) ==
  LET scaled == BigMul(x.m, BigFromInt(Pow10(digits)))
  IN IF x.m = <<>> THEN 0
     ELSE IF x.e >= 0 THEN BigToInt(BigShl(scaled, x.e))
     ELSE BigToInt(BigShr(BigAdd(scaled, BigShl(<<1>>, (0 - x.e) - 1)), 0 - x.e))

\* parseFloat(v.toFixed(digits)): "Infinity" and "NaN" parse to themselves
Fixed(v, digits) ==
  IF IsDouble(v) THEN Double(Decimal(toFixed(v[2], digits), Pow10(digits))) ELSE v

\* action.action_type === one of types; an action without a type is none
HasType(action, types) ==
  "action_type" \in DOMAIN action /\ action.action_type \in types

\* The largest of a set of whole numbers that is not empty
Largest(values) == CHOOSE v \in values : \A w \in values : w <= v

\* getTodaySpendData: getLinkClicks(data)
getLinkClicks(data) ==
  IF data.actions = Undefined THEN 0
  ELSE LET actions == Elements(data.actions)
           found == {i \in 1..Len(actions) : HasType(actions[i], {"link_click"})}
       IN IF found = {} THEN 0
          ELSE parseInt(OrZero(actions[CHOOSE i \in found : \A j \in found : i <= j].value))

\* getTodaySpendData: calculateLinkCTR(linkClicks, impressions), where
\* impressions is the string of the upstream: "0" is neither falsy nor === 0
calculateLinkCTR(linkClicks, impressions) ==
  IF impressions = Undefined THEN Double(Zero)
  ELSE Times(Divide(FromInt(linkClicks), parseFloat(impressions)), FromInt(100))

\* getTodaySpendData: calculateLinkCPC(spend, linkClicks); undefined / n is NaN
calculateLinkCPC(spend, linkClicks) ==
  IF linkClicks = 0 THEN Double(Zero)
  ELSE IF spend = Undefined THEN NaN
  ELSE Divide(parseFloat(spend), FromInt(linkClicks))

\* The action types getResultsData counts as a result
ResultTypes ==
  {"purchase", "onsite_web_purchase", "onsite_web_app_purchase", "omni_purchase",
   "web_in_store_purchase"}

\* (mutant) the division is not guarded
AnyResults(results) == TRUE

\* results > 0, the guard of the division in getResultsData
HasResults(results) == results > 0

\* getTodaySpendData: getResultsData(data)
getResultsData(data) ==
  IF data.actions = Undefined THEN [results |-> 0, costOfResults |-> Double(Zero)]
  ELSE LET actions == Elements(data.actions)
           purchaseActions == {i \in 1..Len(actions) : HasType(actions[i], ResultTypes)}
           results == Largest({parseInt(OrZero(actions[i].value)) : i \in purchaseActions}
                              \cup {0})
       IN [results |-> results,
           costOfResults |->
             IF HasResults(results)
             THEN Divide(parseFloat(OrZero(data.spend)), FromInt(results))
             ELSE Double(Zero)]

\* getTodaySpendData, after its awaits: the object it returns for primaryData
todaySpendResult(primaryData) ==
  LET primaryLinkClicks == getLinkClicks(primaryData)
      resultsData == getResultsData(primaryData)
  IN [spend |-> Fixed(Double(parseFloat(OrZero(primaryData.spend))), 2),
      impressions |-> parseInt(OrZero(primaryData.impressions)),
      clicks |-> primaryLinkClicks,
      total_clicks |-> parseInt(OrZero(primaryData.clicks)),
      cpc |-> Fixed(calculateLinkCPC(primaryData.spend, primaryLinkClicks), 4),
      total_cpc |-> Double(parseFloat(OrZero(primaryData.cpc))),
      ctr |-> Fixed(calculateLinkCTR(primaryLinkClicks, primaryData.impressions), 4),
      total_ctr |-> Double(parseFloat(OrZero(primaryData.ctr))),
      results |-> resultsData.results,
      costOfResults |-> Fixed(resultsData.costOfResults, 2)]

\* processAdInsightsData(insightData), for a row that is read: the metrics
\* and the score it returns.  The score is computed from the metrics, which
\* are the numbers the fields of the row parse to, with the link clicks as
\* clicks and [] for missing action values
adInsightsResult(insightData) ==
  LET linkClicks == getLinkClicks(insightData)
      action_values == IF insightData.action_values = Undefined THEN ArrayOf(<<>>)
                       ELSE insightData.action_values
  IN [metrics |->
        [impressions |-> parseInt(OrZero(insightData.impressions)),
         clicks |-> linkClicks,
         spend |-> Double(parseFloat(OrZero(insightData.spend))),
         cpm |-> Double(parseFloat(OrZero(insightData.cpm))),
         cpc |-> Double(parseFloat(OrZero(insightData.cpc))),
         ctr |-> Double(parseFloat(OrZero(insightData.ctr))),
         actions |-> IF insightData.actions = Undefined THEN ArrayOf(<<>>)
                     ELSE insightData.actions,
         action_values |-> action_values],
      performance_score |->
        calculatePerformanceScore(
          [insightData EXCEPT !.clicks = Money(100 * linkClicks),
                              !.action_values = action_values]).result]

\* name.includes('| static |'), ('| dynamic |'), ('| video |'), ('adset'),
\* ('campaign'), or a name under ten characters without 'ad', on the names
\* the model gives its ads in lower case
AdsetLikeNames == {"promo | video | v2", "spring campaign", "set 1"}
LooksLikeAdset(name) == name \in AdsetLikeNames

\* ads.filter(ad => ...) of processAdsData
RECURSIVE Filter(_, _)
Filter(elements, keeps) ==
  IF elements = <<>> THEN <<>>
  ELSE (IF Head(elements) \in keeps THEN <<Head(elements)>> ELSE <<>>)
       \o Filter(Tail(elements), keeps)

\* actions.reduce((sum, action) => sum + parseInt(action.value || 0), 0)
RECURSIVE SumOfCounts(_)
SumOfCounts(actions) ==
  IF actions = <<>> THEN 0
  ELSE SumOfCounts(SubSeq(actions, 1, Len(actions) - 1))
       + parseInt(OrZero(actions[Len(actions)].value))

\* The purchase actions of an array: action.action_type &&
\* action.action_type.includes('purchase')
PurchaseActions(array) ==
  IF array = Undefined THEN <<>>
  ELSE Filter(Elements(array),
              {a \in {Elements(array)[i] : i \in 1..Len(Elements(array))} :
                 HasType(a, Including.purchase)})

\* actualAds.reduce((sum, ad) => sum + parseFloat(insights.spend || 0), 0)
RECURSIVE SumOfSpend(_)
SumOfSpend(ads) ==
  IF ads = <<>> THEN Zero
  ELSE DoubleAdd(SumOfSpend(SubSeq(ads, 1, Len(ads) - 1)),
                 parseFloat(OrZero(ads[Len(ads)].insights.spend)))

\* processAdsData: the totals of the account it distributes, as it logs them
accountTotals(actualAds, accountConversionData) ==
  IF accountConversionData = Null
  THEN [totalAdSpend |-> Zero, totalAccountConversions |-> 0,
        totalAccountConversionValue |-> Zero]
  ELSE LET account == accountConversionData[2]
           totalAccountConversions == SumOfCounts(PurchaseActions(account.actions))
           purchaseValues == PurchaseActions(account.action_values)
           uniqueValues == {parseFloat(OrZero(purchaseValues[i].value)) :
                              i \in 1..Len(purchaseValues)}
           reported == IF uniqueValues = {} THEN Zero ELSE MathMax(uniqueValues)
       IN [totalAdSpend |-> SumOfSpend(actualAds),
           totalAccountConversions |-> totalAccountConversions,
           totalAccountConversionValue |->
             IF reported = Zero /\ totalAccountConversions > 0
             THEN FromInt(totalAccountConversions * defaultConversionValuePerPurchase)
             ELSE reported]

\* The actions of one ad that are kept: all but its purchase actions
\* (action.action_type.includes of an action without a type is a TypeError)
WithoutPurchases(array) ==
  IF array = Undefined THEN <<>>
  ELSE Filter(Elements(array),
              {a \in {Elements(array)[i] : i \in 1..Len(Elements(array))} :
                 ~HasType(a, Including.purchase)})
Untyped(array) ==
  /\ array # Undefined
  /\ \E i \in 1..Len(Elements(array)) : "action_type" \notin DOMAIN Elements(array)[i]

\* insights.spend > 0, the guard on the share of an ad
HasSpend(spend) == spend # Undefined /\ DoubleLess(Zero, parseFloat(spend))

\* processAdsData: what one ad is given of the totals
enrichAd(ad, totals, accountConversionData) ==
  LET adInsights == ad.insights
      share == accountConversionData # Null /\ DoubleLess(Zero, totals.totalAdSpend)
               /\ HasSpend(adInsights.spend)
      adSpendRatio == DoubleDiv(parseFloat(OrZero(adInsights.spend)), totals.totalAdSpend)
      adConversions ==
        MathRound(DoubleMul(FromInt(totals.totalAccountConversions), adSpendRatio))
      adConversionValue == DoubleMul(totals.totalAccountConversionValue, adSpendRatio)
      purchases ==
        IF share /\ adConversions > 0
        THEN <<[action_type |-> "purchase", value |-> Money(100 * adConversions)]>>
        ELSE <<>>
      purchaseValues ==
        IF share /\ adConversions > 0 /\ DoubleLess(Zero, adConversionValue)
        THEN <<[action_type |-> "purchase", value |-> Money(toFixed(adConversionValue, 2))]>>
        ELSE <<>>
  IN [name |-> ad.name,
      metrics |-> [spend |-> parseFloat(OrZero(adInsights.spend)),
                   actions |-> ArrayOf(WithoutPurchases(adInsights.actions) \o purchases),
                   action_values |->
                     ArrayOf(WithoutPurchases(adInsights.action_values) \o purchaseValues)],
      performance_score |-> calculatePerformanceScore(adInsights).result]

\* processAdsData: what it returns for the ads it enriched, or the TypeError
\* one of its callbacks threw
returnedAds(actualAds, totals, enrichedAds) ==
  IF \E i \in 1..Len(actualAds) :
       \/ Untyped(actualAds[i].insights.actions)
       \/ Untyped(actualAds[i].insights.action_values)
       \/ enrichedAds[i].performance_score = TypeError
  THEN TypeError
  ELSE <<"ads", [logged |-> totals, ads |-> enrichedAds]>>

\* processAdsData(ads, accountConversionData): the ads that pass the filter
\* on names, the totals, then each ad enriched
processAdsData(ads, accountConversionData) ==
  CHOOSE result \in
    UNION { UNION { { returnedAds(actualAds, totals, enrichedAds) :
                      enrichedAds \in
                        {[i \in 1..Len(actualAds) |->
                            enrichAd(actualAds[i], totals, accountConversionData)]} } :
                    totals \in {accountTotals(actualAds, accountConversionData)} } :
            actualAds \in
              {Filter(ads, {ad \in {ads[i] : i \in 1..Len(ads)} :
                              ~LooksLikeAdset(ad.name)})} } : TRUE

(* --------------------------------------------------------------- callers *)
\* _t as a route passes it on: absent ("") or a nonce
Nonces == {"", "n1"}

\* requestParams of getTodaySpendData for one date range, _t added when truthy
TodaySpendParams(nonce) ==
  << <<"fields", "spend_fields">>, <<"time_range", "24h">>, <<"level", "account">> >>
  \o (IF nonce # "" THEN << <<"_t", nonce>> >> ELSE <<>>)

\* The requests of getTodaySpendData, without and with a nonce
DirectRequests ==
  { [endpoint |-> <<"act_1", "/insights">>, params |-> TodaySpendParams(n),
     cacheType |-> "todaySpend"] : n \in Nonces }

\* Cache types the service's methods pass to setCache: by name through
\* makeRequest, none ('default') for the creative fetch, and 300 in getAdInsights
CacheTypes ==
  {"account", "todaySpend", "yesterdaySpend", "campaignInsights", "ads",
   "campaigns", "adsets", "default", "ad_insights", "300"}

\* The keys and values SpecCache stores
CacheKeys ==
  {getCacheKey(<<"act_1", "/insights">>, TodaySpendParams("")),
   <<"ad_insights_", "ad1", "_", "today">>}
CacheValues == {<<"response", "r1">>, <<"insights", "r1">>}
AdIds == {"ad1"}
DateRanges == {"today"}

\* What the upstream can answer to one HTTP GET, as each specification
\* enumerates it
ClientOutcomes ==
  {<<"ok", <<"response", d>>>> : d \in {"r1", "r2"}} \cup {<<"error", AxiosError(500)>>}
QueueOutcomes ==
  {<<"ok", <<"response", "r1">>>>, <<"error", AxiosError(429)>>,
   <<"error", AxiosError(500)>>, <<"error", NetworkError>>}
InsightOutcomes ==
  {<<"ok", p>> : p \in Payloads} \cup {<<"error", AxiosError(500)>>}

\* The one request shape of SpecQueue: getTodaySpendData without a nonce
QueuedRequest ==
  [endpoint |-> <<"act_1", "/insights">>, params |-> TodaySpendParams(""),
   cacheType |-> "todaySpend"]

\* The amounts by which the clock is seen to advance
TickSteps == {ShortStep, ttlTodaySpend}

\* The records scored: money and rates in hundredths, counts as whole numbers
Purchase(h) == ArrayOf(<<[action_type |-> "purchase", value |-> Money(h)]>>)
ActionValues ==
  { Undefined,
    Purchase(25000),
    Purchase(30),
    ArrayOf(<< [action_type |-> "omni_purchase", value |-> Money(30)],
               [action_type |-> "purchase", value |-> Money(30)],
               [action_type |-> "add_to_cart", value |-> Money(99900)],
               [action_type |-> "offsite_conversion.fb_pixel_purchase",
                value |-> Money(15)] >>),
    ArrayOf(<< [value |-> Money(100)] >>) }
ScoreInputs ==
  [spend : {Undefined, Money(10), Money(10000)},
   impressions : {Money(0), Money(15100)},
   clicks : {Money(0), Money(400)},
   ctr : {Money(0)},
   cpm : {Money(500), Money(2500)},
   cpc : {Money(600)},
   action_values : ActionValues]

\* The values the next record takes in the field that changes
NextValues ==
  [ctr |-> {Money(h) : h \in {5, 10, 29, 30, 50, 100, 150, 200, 300}},
   cpm |-> {Money(h) : h \in {499, 1000, 1001, 7500, 10000, 10001}},
   cpc |-> {Money(h) : h \in {49, 50, 51, 300, 1200, 1201}},
   action_values |-> {Purchase(h) : h \in {0, 1, 5, 10, 15, 20, 40, 15000, 30000}}]

\* The account rows getTodaySpendData enriches: counts are whole numbers
\* (Money(500) is "5"), money and rates are decimals
Action(actionType, h) == [action_type |-> actionType, value |-> Money(h)]
AccountActions ==
  { Undefined,
    ArrayOf(<<>>),
    ArrayOf(<<Action("link_click", 400)>>),
    ArrayOf(<<Action("purchase", 500), Action("omni_purchase", 500),
              Action("link_click", 400), Action("onsite_web_purchase", 800)>>),
    ArrayOf(<<Action("link_click", 0), Action("purchase", 300)>>),
    ArrayOf(<<Action("offsite_conversion.fb_pixel_purchase", 900),
              Action("link_click", 700), Action("post_engagement", 100)>>),
    ArrayOf(<<[value |-> Money(200)], Action("web_in_store_purchase", 700)>>) }
PrimaryDataInputs ==
  [spend : {Undefined, Money(15), Money(1000), Money(9999)},
   impressions : {Undefined, Money(0), Money(2000000)},
   clicks : {Money(100000)},
   ctr : {Money(250)},
   cpc : {Money(125)},
   actions : AccountActions]

\* The ad rows processAdInsightsData enriches: the rates of the platform
\* count all clicks, 1000 of them on 20000 impressions
InsightDataInputs ==
  [spend : {Money(0), Money(1000)},
   impressions : {Undefined, Money(2000000)},
   clicks : {Money(100000)},
   ctr : {Money(500)},
   cpm : {Money(50)},
   cpc : {Money(1)},
   actions : {Undefined,
              ArrayOf(<<Action("link_click", 0)>>),
              ArrayOf(<<Action("purchase", 200), Action("link_click", 400)>>)},
   action_values : {Undefined, ArrayOf(<<Action("purchase", 5000)>>)}]

\* The ads processAdsData enriches and the account row it distributes
Ad(name, spend) ==
  [name |-> name,
   insights |-> [spend |-> spend, impressions |-> Money(100000), clicks |-> Money(4000),
                 ctr |-> Money(400), cpm |-> Money(1500), cpc |-> Money(50),
                 actions |-> ArrayOf(<<Action("link_click", 3000), Action("purchase", 9900)>>),
                 action_values |-> ArrayOf(<<Action("purchase", 123400)>>)]]
AdLists ==
  { <<Ad("ad one - hero image", Money(3000)), Ad("ad two - carousel", Money(7000))>>,
    <<Ad("ad one - hero image", Money(700)), Ad("ad two - carousel", Money(300))>>,
    <<Ad("ad one - hero image", Money(0)), Ad("spring campaign", Money(5000)),
      Ad("ad two - carousel", Money(10000))>>,
    <<Ad("ad one - hero image", Undefined), Ad("ad two - carousel", Money(5000))>>,
    <<Ad("set 1", Money(2500)), Ad("ad one - hero image", Money(0))>> }
AccountRows ==
  { Null,
    <<"record", [actions |-> ArrayOf(<<Action("purchase", 1000)>>),
                 action_values |-> Undefined]>>,
    <<"record", [actions |-> ArrayOf(<<Action("purchase", 500), Action("omni_purchase", 500),
                                       Action("offsite_conversion.fb_pixel_purchase", 800),
                                       Action("link_click", 4000)>>),
                 action_values |-> ArrayOf(<<Action("purchase", 25000),
                                             Action("omni_purchase", 25000),
                                             Action("onsite_web_purchase", 40000)>>)]>>,
    <<"record", [actions |-> ArrayOf(<<Action("purchase", 4500)>>),
                 action_values |-> ArrayOf(<<Action("purchase", 0)>>)]>>,
    <<"record", [actions |-> ArrayOf(<<Action("purchase", 500), Action("omni_purchase", 500),
                                       Action("onsite_web_purchase", 800)>>),
                 action_values |-> ArrayOf(<<>>)]>>,
    <<"record", [actions |-> Undefined,
                 action_values |-> ArrayOf(<<Action("purchase", 10000)>>)]>>,
    <<"record", [actions |-> ArrayOf(<<Action("link_click", 4000)>>),
                 action_values |-> Undefined]>> }

\* The entries the service writes in SpecLifecycle, each key with the cache
\* type its caller passes: getTodaySpendData through makeRequest, and
\* getAdInsights with 'ad_insights' for each ad
StoredEntries ==
  { [key |-> getCacheKey(<<"act_1", "/insights">>, TodaySpendParams("")),
     cacheType |-> "todaySpend"] }
  \cup { [key |-> AdInsightsKey(adId, "today"), cacheType |-> "ad_insights"] :
           adId \in {"ad1", "ad2", "ad3", "ad4"} }

\* process.env as the process can be started with it
Environments ==
  [META_ACCESS_TOKEN : {Undefined, <<"string", "">>, <<"string", "token">>},
   META_AD_ACCOUNT_ID : {Undefined, <<"string", "act_1">>}]

\* Properties the callers of makeRequest put in params, and their endpoints
KeyProperties ==
  {<<"fields", "spend_fields">>, <<"fields", "insight_fields">>,
   <<"level", "account">>, <<"time_range", "24h">>, <<"_t", "n1">>}
KeyEndpoints == {<<"act_1", "/insights">>, <<"ad1", "/insights">>}

\* Two requests whose keys executeRequest computes
KeyInputs ==
  {<<"requests", [a |-> [endpoint |-> e1, params |-> p1],
                  b |-> [endpoint |-> e2, params |-> p2]]>> :
     e1 \in KeyEndpoints, e2 \in KeyEndpoints,
     p1 \in ParamObjects(KeyProperties, MaxParams),
     p2 \in ParamObjects(KeyProperties, MaxParams)}

(* --------------------------------------------------------------- actions *)
ServiceInit ==
  /\ now = Epoch
  /\ ticks = 0
  /\ cache = EmptyMap
  /\ cacheExpiry = EmptyMap
  /\ cacheFile = Undefined
  /\ requestQueue = <<>>
  /\ isProcessingQueue = FALSE
  /\ lastRequestTime = 0
  /\ requests = <<>>
  /\ promise = <<>>
  /\ drain = <<>>
  /\ calls = <<>>
  /\ dispatchLog = <<>>
  /\ lastCacheOps = <<>>

\* The service was constructed with both credentials and is exported
Constructed ==
  /\ process = "running"
  /\ env = [META_ACCESS_TOKEN |-> <<"string", "token">>,
            META_AD_ACCOUNT_ID |-> <<"string", "act_1">>]
  /\ moduleExports = <<"MetaService">>
  /\ writesSinceSave = 0
  /\ issuedBeforeClear = {}

Init ==
  /\ ServiceInit
  /\ Constructed
  /\ insights = Undefined
  /\ scores = Undefined
  /\ performanceScore = Undefined
  /\ previous = Undefined
  /\ rawData = Undefined
  /\ enriched = Undefined

\* A caller calls makeRequest
MakeRequest(rq, max) ==
  /\ Len(requests) < max
  /\ \E s1 \in {makeRequest(Svc, rq.endpoint, rq.params, rq.cacheType, 0, now)} : Commit(s1)
  /\ UNCHANGED <<now, ticks>>

\* axios.get of drain loop i settles, and executeRequest runs to its end
HttpRespond(i, out) ==
  /\ drain[i].pc = "http"
  /\ \E s1 \in {executeRequestFinish(Svc, i, out, now)} : Commit(s1)
  /\ UNCHANGED <<now, ticks>>

\* Drain loop i continues after executeRequest
DrainResume(i) ==
  /\ drain[i].pc = "settled"
  /\ \E s1 \in {drainResume(Svc, i, now)} : Commit(s1)
  /\ UNCHANGED <<now, ticks>>

\* A timer of drain loop i fires: no sooner than it is due
TimerFire(i) ==
  /\ drain[i].pc \in {"throttle", "backoff"}
  /\ now' = Max(now, drain[i].wake)
  /\ \E s1 \in {timerFired(Svc, i, Max(now, drain[i].wake))} : Commit(s1)
  /\ UNCHANGED ticks

\* The route calls getAdInsights(adId, dateRange, _t)
GetAdInsights(adId, dateRange, nonce) ==
  /\ Len(calls) < MaxCalls
  /\ Len(requests) < MaxInsightRequests
  /\ \E s1 \in {getAdInsightsStart(Svc, adId, dateRange, nonce, now)} : Commit(s1)
  /\ UNCHANGED <<now, ticks>>

\* getAdInsights call c continues after its request settled
GetAdInsightsResume(c) ==
  /\ calls[c].method = "getAdInsights"
  /\ calls[c].pc = "await"
  /\ promise[calls[c].req].state # "pending"
  /\ Len(requests) < MaxInsightRequests
     \/ calls[c].approach = Len(Approaches)
     \/ (promise[calls[c].req].state = "resolved" /\ HasData(promise[calls[c].req].value))
  /\ \E s1 \in {getAdInsightsResume(Svc, c, now)} : Commit(s1)
  /\ UNCHANGED <<now, ticks>>

\* A caller calls getAdSpecificInsights(adId, dateRange)
GetAdSpecificInsights(adId, dateRange) ==
  /\ Len(calls) < MaxCalls
  /\ Len(requests) < MaxInsightRequests
  /\ \E s1 \in {getAdSpecificInsightsStart(Svc, adId, dateRange, now)} : Commit(s1)
  /\ UNCHANGED <<now, ticks>>

\* getAdSpecificInsights call c continues after its request settled
GetAdSpecificInsightsResume(c) ==
  /\ calls[c].method = "getAdSpecificInsights"
  /\ calls[c].pc = "await"
  /\ promise[calls[c].req].state # "pending"
  /\ IF Len(requests) < MaxInsightRequests
     THEN TRUE
     ELSE IF calls[c].approach = Len(SpecificApproaches)
          THEN TRUE
          ELSE /\ promise[calls[c].req].state = "resolved"
               /\ HasRecord(promise[calls[c].req].value)
               /\ IsDateSpecific(promise[calls[c].req].value[2], calls[c].dateRange)
  /\ \E s1 \in {getAdSpecificInsightsResume(Svc, c, now)} : Commit(s1)
  /\ UNCHANGED <<now, ticks>>

\* GET /ad-insights?dateRange=...
RouteAdInsights(dateRange) ==
  /\ Len(calls) < MaxCalls
  /\ Len(requests) < MaxInsightRequests
  /\ \E s1 \in {routeAdInsights(Svc, dateRange, now)} : Commit(s1)
  /\ UNCHANGED <<now, ticks>>

\* A method of the service calls setCache(cacheKey, data, cacheType)
SetCache(cacheKey, data, cacheType) ==
  /\ \E s1 \in {setCache(Svc, cacheKey, data, cacheType, now)} : Commit(s1)
  /\ UNCHANGED <<now, ticks>>

\* A method of the service calls getFromCache(cacheKey)
GetFromCache(cacheKey) ==
  /\ \E s1 \in {getFromCache(Svc, cacheKey, now)} : Commit(s1)
  /\ UNCHANGED <<now, ticks>>

\* An insight record is scored
CalculatePerformanceScore ==
  /\ performanceScore = Undefined
  /\ \E outcome \in {calculatePerformanceScore(insights)} :
       /\ scores' = outcome.scores
       /\ performanceScore' = outcome.result
  /\ UNCHANGED <<insights, previous>>
  /\ UNCHANGED <<now, ticks, cache, cacheExpiry, cacheFile, requestQueue,
                 isProcessingQueue, lastRequestTime, requests, promise, drain,
                 calls, dispatchLog, lastCacheOps>>
  /\ UNCHANGED enrichment
  /\ UNCHANGED lifecycle

\* The next record, the one before with another value in one field, is scored
ScoreNext(field, value) ==
  /\ performanceScore # Undefined
  /\ previous = Undefined
  /\ insights[field] # value
  /\ previous' = <<"call", [insights |-> insights, scores |-> scores,
                             performanceScore |-> performanceScore]>>
  /\ \E record \in {[insights EXCEPT ![field] = value]} :
       /\ insights' = record
       /\ \E outcome \in {calculatePerformanceScore(record)} :
            /\ scores' = outcome.scores
            /\ performanceScore' = outcome.result
  /\ UNCHANGED <<now, ticks, cache, cacheExpiry, cacheFile, requestQueue,
                 isProcessingQueue, lastRequestTime, requests, promise, drain,
                 calls, dispatchLog, lastCacheOps>>
  /\ UNCHANGED enrichment
  /\ UNCHANGED lifecycle

\* getTodaySpendData enriches the row its requests resolved to
GetTodaySpendData ==
  /\ rawData[1] = "primaryData"
  /\ enriched = Undefined
  /\ enriched' = <<"todaySpend", todaySpendResult(rawData[2])>>
  /\ UNCHANGED rawData
  /\ UNCHANGED <<now, ticks, cache, cacheExpiry, cacheFile, requestQueue,
                 isProcessingQueue, lastRequestTime, requests, promise, drain,
                 calls, dispatchLog, lastCacheOps>>
  /\ UNCHANGED scoring
  /\ UNCHANGED lifecycle

\* processAdInsightsData is called with the first row of a response
ProcessAdInsightsData ==
  /\ rawData[1] = "insightData"
  /\ enriched = Undefined
  /\ enriched' = <<"adInsights", adInsightsResult(rawData[2])>>
  /\ UNCHANGED rawData
  /\ UNCHANGED <<now, ticks, cache, cacheExpiry, cacheFile, requestQueue,
                 isProcessingQueue, lastRequestTime, requests, promise, drain,
                 calls, dispatchLog, lastCacheOps>>
  /\ UNCHANGED scoring
  /\ UNCHANGED lifecycle

\* processAdsData is called with a list of ads and an account row
ProcessAdsData ==
  /\ rawData[1] = "ads"
  /\ enriched = Undefined
  /\ enriched' = processAdsData(rawData[2].ads, rawData[2].account)
  /\ UNCHANGED rawData
  /\ UNCHANGED <<now, ticks, cache, cacheExpiry, cacheFile, requestQueue,
                 isProcessingQueue, lastRequestTime, requests, promise, drain,
                 calls, dispatchLog, lastCacheOps>>
  /\ UNCHANGED scoring
  /\ UNCHANGED lifecycle

\* A process starts and loads metaService.js:
\* module.exports = new MetaService()
Require ==
  /\ process \in {"unstarted", "exited"}
  /\ \E made \in {constructor(cacheFile, env, now)} :
       /\ CommitService(made.state)
       /\ process' = IF made.thrown = Undefined THEN "running" ELSE "failed"
       /\ moduleExports' = IF made.thrown = Undefined THEN <<"MetaService">>
                           ELSE Undefined
  /\ writesSinceSave' = 0
  /\ issuedBeforeClear' = {}
  /\ UNCHANGED <<now, ticks, env>>
  /\ UNCHANGED scoring
  /\ UNCHANGED enrichment

\* A method of the exported service calls setCache for one of its entries
WriteCache(entry) ==
  /\ process = "running"
  /\ \E s1 \in {setCache(Svc, entry.key, <<"response", "r1">>, entry.cacheType, now)} :
       /\ CommitService(s1)
       /\ writesSinceSave' = IF s1.cacheFile = saveCacheToFile(s1).cacheFile THEN 0
                             ELSE IF writesSinceSave < saveEvery
                             THEN writesSinceSave + 1 ELSE saveEvery
  /\ UNCHANGED <<now, ticks, process, env, moduleExports, issuedBeforeClear>>
  /\ UNCHANGED scoring
  /\ UNCHANGED enrichment

\* router.post('/clear-cache'): metaService.clearCache()
ClearCache ==
  /\ process = "running"
  /\ \E s1 \in {clearCache(Svc)} : CommitService(s1)
  /\ writesSinceSave' = 0
  /\ issuedBeforeClear' = 1..Len(requests)
  /\ UNCHANGED <<now, ticks, process, env, moduleExports>>
  /\ UNCHANGED scoring
  /\ UNCHANGED enrichment

\* The process ends: 'exit' is emitted (also after the constructor threw),
\* or SIGINT or SIGTERM is received; the handler runs and the process is gone
ProcessEnds(event) ==
  /\ \/ process = "running"
     \/ process = "failed" /\ event = "exit"
  /\ \E s1 \in {exitHandler(Svc)} : CommitService(s1)
  /\ process' = "exited"
  /\ moduleExports' = Undefined
  /\ UNCHANGED <<now, ticks, env, writesSinceSave, issuedBeforeClear>>
  /\ UNCHANGED scoring
  /\ UNCHANGED enrichment

\* A caller that required the service calls makeRequest, once in a process
RequestOfExported(rq) ==
  /\ moduleExports # Undefined
  /\ requests = <<>>
  /\ MakeRequest(rq, MaxRequests)

\* executeRequest computes the cache key of each of the two requests:
\* const cacheKey = this.getCacheKey(endpoint, params)
GetCacheKey ==
  /\ rawData # Undefined
  /\ rawData[1] = "requests"
  /\ enriched = Undefined
  /\ enriched' = <<"cacheKeys",
                   [a |-> getCacheKey(rawData[2].a.endpoint, rawData[2].a.params),
                    b |-> getCacheKey(rawData[2].b.endpoint, rawData[2].b.params)]>>
  /\ UNCHANGED <<now, ticks, cache, cacheExpiry, cacheFile, requestQueue,
                 isProcessingQueue, lastRequestTime, requests, promise, drain,
                 calls, dispatchLog, lastCacheOps, rawData>>
  /\ UNCHANGED scoring
  /\ UNCHANGED lifecycle

\* A caller calls makeRequest while every request made so far is pending:
\* two handlers of one route, each awaiting getTodaySpendData
EnqueueTogether(rq) ==
  /\ \A r \in 1..Len(promise) : promise[r].state = "pending"
  /\ MakeRequest(rq, MaxRequests)

\* The route calls getAdInsights(adId, dateRange, _t) after the calls before
\* it have returned
GetAdInsightsAgain(adId, dateRange, nonce) ==
  /\ \A c \in 1..Len(calls) : calls[c].pc = "returned"
  /\ Len(calls) < MaxCalls
  /\ Len(requests) < MaxRetryRequests
  /\ \E s1 \in {getAdInsightsStart(Svc, adId, dateRange, nonce, now)} : Commit(s1)
  /\ UNCHANGED <<now, ticks>>

\* getAdInsights call c continues after its request settled
GetAdInsightsContinue(c) ==
  /\ calls[c].pc = "await"
  /\ promise[calls[c].req].state # "pending"
  /\ Len(requests) < MaxRetryRequests
     \/ calls[c].approach = Len(Approaches)
     \/ (promise[calls[c].req].state = "resolved" /\ HasData(promise[calls[c].req].value))
  /\ \E s1 \in {getAdInsightsResume(Svc, c, now)} : Commit(s1)
  /\ UNCHANGED <<now, ticks>>

\* Time passes
Tick(d) ==
  /\ ticks < MaxTicks
  /\ now' = now + d
  /\ ticks' = ticks + 1
  /\ lastCacheOps' = <<>>
  /\ UNCHANGED <<cache, cacheExpiry, cacheFile, requestQueue, isProcessingQueue,
                 lastRequestTime, requests, promise, drain, calls, dispatchLog>>
  /\ UNCHANGED scoring
  /\ UNCHANGED enrichment
  /\ UNCHANGED lifecycle

\* The Upstream Client and its cache under the service's other callers
Next ==
  \/ \E rq \in DirectRequests : MakeRequest(rq, MaxRequests)
  \/ \E i \in 1..Len(drain), out \in ClientOutcomes : HttpRespond(i, out)
  \/ \E i \in 1..Len(drain) : DrainResume(i)
  \/ \E i \in 1..Len(drain) : TimerFire(i)
  \/ \E d \in TickSteps : Tick(d)

Spec == Init /\ [][Next]_vars

\* The request queue and its drain loop under every kind of upstream failure
NextQueue ==
  \/ MakeRequest(QueuedRequest, MaxQueued)
  \/ \E i \in 1..Len(drain), out \in QueueOutcomes : HttpRespond(i, out)
  \/ \E i \in 1..Len(drain) : DrainResume(i)
  \/ \E i \in 1..Len(drain) : TimerFire(i)
  \/ \E d \in TickSteps : Tick(d)

SpecQueue == Init /\ [][NextQueue]_vars

\* The event loop runs every continuation that is ready, a timer that is due
\* fires, and axios.get settles (its timeout is 30 s)
FairSpecQueue ==
  /\ SpecQueue
  /\ WF_vars(\E i \in 1..Len(drain), out \in QueueOutcomes : HttpRespond(i, out))
  /\ WF_vars(\E i \in 1..Len(drain) : DrainResume(i))
  /\ WF_vars(\E i \in 1..Len(drain) : TimerFire(i))

\* The cache store alone: setCache and getFromCache as the methods call them
NextCache ==
  \/ \E k \in CacheKeys, v \in CacheValues, ct \in CacheTypes : SetCache(k, v, ct)
  \/ \E k \in CacheKeys : GetFromCache(k)
  \/ \E d \in TickSteps : Tick(d)

SpecCache == Init /\ [][NextCache]_vars

\* getAdInsights(adId, dateRange, _t) over the queue and the cache
NextInsights ==
  \/ \E a \in AdIds, dr \in DateRanges, n \in Nonces : GetAdInsights(a, dr, n)
  \/ \E c \in 1..Len(calls) : GetAdInsightsResume(c)
  \/ \E i \in 1..Len(drain), out \in InsightOutcomes : HttpRespond(i, out)
  \/ \E i \in 1..Len(drain) : DrainResume(i)
  \/ \E i \in 1..Len(drain) : TimerFire(i)

SpecInsights == Init /\ [][NextInsights]_vars

\* Insight resolution for one ad, by both methods, without cache busting
NextResolution ==
  \/ \E a \in AdIds, dr \in DateRanges : GetAdInsights(a, dr, "")
  \/ \E c \in 1..Len(calls) : GetAdInsightsResume(c)
  \/ \E a \in AdIds, dr \in DateRanges : GetAdSpecificInsights(a, dr)
  \/ \E c \in 1..Len(calls) : GetAdSpecificInsightsResume(c)
  \/ \E i \in 1..Len(drain), out \in InsightOutcomes : HttpRespond(i, out)
  \/ \E i \in 1..Len(drain) : DrainResume(i)
  \/ \E i \in 1..Len(drain) : TimerFire(i)

SpecResolution == Init /\ [][NextResolution]_vars

\* The dateRange values of GET /ad-insights: its default and a single day
RouteDateRanges == {"30d", "today"}

\* The route GET /ad-insights over the queue and the cache
NextBatch ==
  \/ \E dr \in RouteDateRanges : RouteAdInsights(dr)
  \/ \E c \in 1..Len(calls) : GetAdInsightsResume(c)
  \/ \E i \in 1..Len(drain), out \in InsightOutcomes : HttpRespond(i, out)
  \/ \E i \in 1..Len(drain) : DrainResume(i)
  \/ \E i \in 1..Len(drain) : TimerFire(i)

SpecBatch == Init /\ [][NextBatch]_vars

\* The scoring of insight records
InitScore ==
  /\ ServiceInit
  /\ Constructed
  /\ insights \in ScoreInputs
  /\ scores = Undefined
  /\ performanceScore = Undefined
  /\ previous = Undefined
  /\ rawData = Undefined
  /\ enriched = Undefined

NextScore ==
  \/ CalculatePerformanceScore
  \/ \E field \in DOMAIN NextValues : \E value \in NextValues[field] :
       ScoreNext(field, value)

SpecScore == InitScore /\ [][NextScore]_vars

\* The enrichment of the rows of the upstream
EnrichInputs ==
  {<<"primaryData", row>> : row \in PrimaryDataInputs}
  \cup {<<"insightData", row>> : row \in InsightDataInputs}
  \cup {<<"ads", [ads |-> ads, account |-> account]>> :
          ads \in AdLists, account \in AccountRows}

InitEnrich ==
  /\ ServiceInit
  /\ Constructed
  /\ insights = Undefined
  /\ scores = Undefined
  /\ performanceScore = Undefined
  /\ previous = Undefined
  /\ rawData \in EnrichInputs
  /\ enriched = Undefined

NextEnrich ==
  \/ GetTodaySpendData
  \/ ProcessAdInsightsData
  \/ ProcessAdsData

SpecEnrich == InitEnrich /\ [][NextEnrich]_vars

\* The cache keys of pairs of requests
InitKey ==
  /\ ServiceInit
  /\ Constructed
  /\ insights = Undefined
  /\ scores = Undefined
  /\ performanceScore = Undefined
  /\ previous = Undefined
  /\ rawData \in KeyInputs
  /\ enriched = Undefined

NextKey == GetCacheKey

SpecKey == InitKey /\ [][NextKey]_vars

\* Requests of one kind enqueued together; the clock advances by the timers
\* and by short steps
NextShared ==
  \/ \E rq \in DirectRequests : EnqueueTogether(rq)
  \/ \E i \in 1..Len(drain), out \in ClientOutcomes : HttpRespond(i, out)
  \/ \E i \in 1..Len(drain) : DrainResume(i)
  \/ \E i \in 1..Len(drain) : TimerFire(i)
  \/ Tick(ShortStep)

SpecShared == Init /\ [][NextShared]_vars

\* The ads asked for one after the other
RetryAdIds == {"ad1", "ad2"}

\* getAdInsights calls made one after the other, each over the queue and the
\* cache
NextRetry ==
  \/ \E a \in RetryAdIds, dr \in DateRanges, n \in Nonces : GetAdInsightsAgain(a, dr, n)
  \/ \E c \in 1..Len(calls) : GetAdInsightsContinue(c)
  \/ \E i \in 1..Len(drain), out \in InsightOutcomes : HttpRespond(i, out)
  \/ \E i \in 1..Len(drain) : DrainResume(i)
  \/ \E i \in 1..Len(drain) : TimerFire(i)

SpecRetry == Init /\ [][NextRetry]_vars

\* Requests over the queue and the cache while the route POST /clear-cache
\* is called
NextClear ==
  \/ \E rq \in DirectRequests : MakeRequest(rq, MaxRequests)
  \/ \E i \in 1..Len(drain), out \in ClientOutcomes : HttpRespond(i, out)
  \/ \E i \in 1..Len(drain) : DrainResume(i)
  \/ \E i \in 1..Len(drain) : TimerFire(i)
  \/ ClearCache

SpecClear == Init /\ [][NextClear]_vars

\* The life of the process: start, cache writes, clearing, exit, restart
InitLifecycle ==
  /\ now = Epoch
  /\ ticks = 0
  /\ cache = EmptyMap
  /\ cacheExpiry = EmptyMap
  /\ cacheFile \in {Undefined, Corrupt}
  /\ requestQueue = <<>>
  /\ isProcessingQueue = FALSE
  /\ lastRequestTime = 0
  /\ requests = <<>>
  /\ promise = <<>>
  /\ drain = <<>>
  /\ calls = <<>>
  /\ dispatchLog = <<>>
  /\ lastCacheOps = <<>>
  /\ insights = Undefined
  /\ scores = Undefined
  /\ performanceScore = Undefined
  /\ previous = Undefined
  /\ rawData = Undefined
  /\ enriched = Undefined
  /\ process = "unstarted"
  /\ env \in Environments
  /\ moduleExports = Undefined
  /\ writesSinceSave = 0
  /\ issuedBeforeClear = {}

NextLifecycle ==
  \/ Require
  \/ \E entry \in StoredEntries : WriteCache(entry)
  \/ ClearCache
  \/ \E event \in {"exit", "SIGINT", "SIGTERM"} : ProcessEnds(event)
  \/ RequestOfExported(QueuedRequest)
  \/ Tick(ttlTodaySpend)

SpecLifecycle == InitLifecycle /\ [][NextLifecycle]_vars

(* ---------------------------------------------------------------- claims *)
\* The HTTP GETs issued for the requests of getAdInsights call c
HttpCalls(c) ==
  Cardinality({j \in 1..Len(dispatchLog) :
                 dispatchLog[j].http /\ requests[dispatchLog[j].req].owner = c})

RateLimitedAnswer == <<"httpResponse", 429>>
NoRateLimiting == \A r \in 1..Len(promise) : promise[r].upstream # RateLimitedAnswer
ActiveDrains == {i \in 1..Len(drain) : drain[i].pc # "idle"}

\* C1: a request that the upstream answered with HTTP 429 is not rejected to
\* its caller (it is backed off and retried at the front of the queue).
C1_RateLimitedNotRejected ==
  \A r \in 1..Len(promise) :
    promise[r].upstream = RateLimitedAnswer => promise[r].state # "rejected"

\* C2: the failure executeRequest raises to the drain loop for an HTTP error
\* response carries that response's status.
C2_FailureCarriesStatus ==
  \A i \in 1..Len(drain) :
    (/\ drain[i].pc = "settled"
     /\ drain[i].outcome[1] = "error"
     /\ promise[drain[i].req].upstream[1] = "httpResponse")
    => ErrorResponse(drain[i].outcome[2]) = promise[drain[i].req].upstream

\* C3: a non-bypass getAdInsights call that starts within the 5 minute window
\* after a non-bypass call for the same ad and date range returned a payload
\* issues no HTTP call and returns that same payload.
C3_SecondCallFromCache ==
  \A c2 \in 1..Len(calls) : \A c1 \in calls[c2].after :
    (/\ calls[c1].nonce = "" /\ calls[c2].nonce = ""
     /\ calls[c1].adId = calls[c2].adId
     /\ calls[c1].dateRange = calls[c2].dateRange
     /\ calls[c2].startedAt - calls[c1].returnedAt < adInsightsWindow)
    => /\ HttpCalls(c2) = 0
       /\ calls[c2].pc = "returned" => calls[c2].result = calls[c1].result

\* C4: right after setCache(k, v, cat), whatever the category, getFromCache(k)
\* returns v.
C4_GetAfterSetReturnsValue ==
  (Len(lastCacheOps) > 0 /\ lastCacheOps[Len(lastCacheOps)].op = "set")
  => getFromCacheValue(Svc, lastCacheOps[Len(lastCacheOps)].key, now)
       = lastCacheOps[Len(lastCacheOps)].value

\* C5: getFromCache(k) returns the stored value when an entry for k exists and
\* now < expiry(k); in every other case it returns absent and leaves no entry
\* for k in the value map or in the expiry map.
C5_GetReturnsLiveEvictsStale ==
  \A j \in 1..Len(lastCacheOps) :
    LET o == lastCacheOps[j]
        live == o.hadExpiry /\ Less(Num(o.at), o.expiry)
    IN o.op = "get" =>
         /\ live => o.returned = o.value
         /\ ~live => (o.returned = Null /\ ~o.keptValue /\ ~o.keptExpiry)

\* C6: every execution of a request that carries the nonce issues the HTTP
\* GET, also when a live entry exists for the same request without the nonce;
\* and a request without the nonce is served from its entry when that is live.
C6_BypassNeverServedFromCache ==
  \A j \in 1..Len(dispatchLog) :
    LET e == dispatchLog[j]
    IN /\ ParamTruthy(requests[e.req].params, "_t") => e.http
       /\ (~HasParam(requests[e.req].params, "_t") /\ e.live) => ~e.http

\* C6: the steps that execute a request carrying the nonce (its dispatch and
\* the end of its HTTP GET) leave the entry of every other key as it was, in
\* both maps.
C6_BypassStep ==
  \A i \in 1..Len(drain') :
    LET r == drain'[i].req
        before == IF i <= Len(drain) THEN drain[i].pc ELSE "idle"
    IN (/\ drain'[i].pc \in {"http", "settled"}
        /\ before # drain'[i].pc
        /\ ParamTruthy(requests'[r].params, "_t"))
       => \A k \in (DOMAIN cache) \cup (DOMAIN cacheExpiry) :
            k # getCacheKey(requests'[r].endpoint, requests'[r].params)
            => /\ k \in DOMAIN cache' /\ k \in DOMAIN cacheExpiry'
               /\ MapGet(cache', k) = MapGet(cache, k)
               /\ MapGet(cacheExpiry', k) = MapGet(cacheExpiry, k)

C6_BypassKeepsEntry == []C6_BypassNeverServedFromCache /\ [][C6_BypassStep]_vars

\* C6 witness: a request with the nonce was executed while the entry of the
\* same request without the nonce was live, and a later request without the
\* nonce was served from the cache.
C6_Witness ==
  \E j, k \in 1..Len(dispatchLog) :
    /\ j < k
    /\ ParamTruthy(requests[dispatchLog[j].req].params, "_t")
    /\ dispatchLog[j].live /\ dispatchLog[j].http
    /\ ~HasParam(requests[dispatchLog[k].req].params, "_t")
    /\ ~dispatchLog[k].http

\* C7: as long as no upstream answer was a 429, the j-th request dispatched to
\* executeRequest is the j-th request enqueued.
C7_DispatchInEnqueueOrder ==
  NoRateLimiting => \A j \in 1..Len(dispatchLog) : dispatchLog[j].req = j

\* C7 witness: three requests were dispatched with no rate-limiting, the
\* first was rejected and the second resolved.
C7_Witness ==
  /\ NoRateLimiting
  /\ Len(dispatchLog) = 3
  /\ promise[1].state = "rejected"
  /\ promise[2].state = "resolved"

\* C8: each dispatch begins at least requestDelay after the dispatch before it
\* began.
C8_DispatchSpacing ==
  \A j \in 2..Len(dispatchLog) :
    dispatchLog[j].began - dispatchLog[j - 1].began >= requestDelay

\* C9: at most one drain loop is active and at most one HTTP GET is in
\* flight; isProcessingQueue is set exactly while a loop is active.
C9_OneDrain ==
  /\ Cardinality(ActiveDrains) <= 1
  /\ Cardinality({i \in 1..Len(drain) : drain[i].pc = "http"}) <= 1
  /\ isProcessingQueue <=> ActiveDrains # {}

\* C9: a makeRequest call made while a drain loop is active only appends its
\* request to the queue.
C9_ReentrantStep ==
  (isProcessingQueue /\ Len(requests') > Len(requests))
  => /\ requestQueue' = Append(requestQueue, Len(requests'))
     /\ drain' = Append(drain, IdleDrain)

C9_SingleDrainLoop == []C9_OneDrain /\ [][C9_ReentrantStep]_vars

\* C9 witness: a request is waiting in the queue while the drain loop has an
\* HTTP GET in flight.
C9_Witness ==
  /\ isProcessingQueue
  /\ Len(requestQueue) >= 1
  /\ \E i \in 1..Len(drain) : drain[i].pc = "http"

\* C10: every request enqueued is eventually settled (again and again, every
\* request enqueued so far has been settled), and no request is settled more
\* than once.
C10_SettledExactlyOnce ==
  /\ []<>(\A r \in 1..Len(promise) : promise[r].settles = 1)
  /\ [](\A r \in 1..Len(promise) : promise[r].settles <= 1)

\* C10 witness: every request of the behaviour is settled, one of them
\* rejected and one resolved, and the queue is empty.
C10_Witness ==
  /\ Len(requests) = MaxQueued
  /\ requestQueue = <<>>
  /\ \A r \in 1..Len(promise) : promise[r].settles = 1
  /\ \E r \in 1..Len(promise) : promise[r].state = "rejected"
  /\ \E r \in 1..Len(promise) : promise[r].state = "resolved"

\* The dispatches of request r so far
Dispatches(r) == {j \in 1..Len(dispatchLog) : dispatchLog[j].req = r}

\* C11: a request whose upstream call failed with anything but a 429 is
\* dispatched once only, and a rejected request was dispatched exactly once.
C11_FailedDispatchedOnce ==
  \A r \in 1..Len(promise) :
    /\ (promise[r].state = "rejected" /\ promise[r].upstream # RateLimitedAnswer)
       => Cardinality(Dispatches(r)) = 1
    /\ promise[r].upstream # RateLimitedAnswer => Cardinality(Dispatches(r)) <= 1

\* C11: the step of the drain loop that receives a failure other than a 429
\* rejects the request to its caller and goes on: it takes the next queued
\* request, or ends the loop when the queue is empty.
C11_FailureStep ==
  \A i \in 1..Len(drain) :
    (/\ drain[i].pc = "settled"
     /\ drain[i].outcome[1] = "error"
     /\ promise[drain[i].req].upstream # RateLimitedAnswer
     /\ drain'[i] # drain[i])
    => /\ promise'[drain[i].req].state = "rejected"
       /\ promise'[drain[i].req].settles = 1
       /\ drain[i].req \notin {requestQueue'[k] : k \in 1..Len(requestQueue')}
       /\ IF requestQueue = <<>>
          THEN drain'[i].pc = "idle" /\ ~isProcessingQueue'
          ELSE /\ drain'[i].req = Head(requestQueue)
               /\ drain'[i].pc \in {"throttle", "http", "settled"}
               /\ requestQueue' = Tail(requestQueue)

C11_FailureRejectedNotRetried == []C11_FailedDispatchedOnce /\ [][C11_FailureStep]_vars

\* C11 witness: the first request failed with HTTP 500 and was rejected, and
\* the loop has dispatched the request queued behind it.
C11_Witness ==
  /\ Len(promise) >= 2
  /\ promise[1].state = "rejected"
  /\ promise[1].upstream = <<"httpResponse", 500>>
  /\ Dispatches(1) = {1}
  /\ Dispatches(2) = {2}

\* C12: an execution issues no HTTP GET exactly when the request carries no
\* nonce and a live entry exists under its key, and one GET otherwise; and the
\* response of a GET that succeeded is stored under the request's key with an
\* expiry that lies one TTL (a positive number of milliseconds) ahead.
C12_FetchOnceAndStore ==
  /\ \A j \in 1..Len(dispatchLog) :
       LET e == dispatchLog[j]
       IN e.http <=> ~(~BypassesCache(requests[e.req].params) /\ e.live)
  /\ \A i \in 1..Len(drain) :
       (/\ drain[i].pc = "settled"
        /\ drain[i].outcome[1] = "ok"
        /\ promise[drain[i].req].upstream = <<"httpResponse", 200>>)
       => LET rq == requests[drain[i].req]
              k == getCacheKey(rq.endpoint, rq.params)
          IN /\ MapGet(cache, k) = drain[i].outcome[2]
             /\ IsNum(MapGet(cacheExpiry, k))
             /\ \A j \in Dispatches(drain[i].req) :
                  Less(Num(dispatchLog[j].began), MapGet(cacheExpiry, k))

\* The requests made by call c, and the place of request r among those of
\* its call
OwnedRequests(c) == {r \in 1..Len(requests) : requests[r].owner = c}
RequestRank(r) ==
  Cardinality({q \in OwnedRequests(requests[r].owner) : q <= r})

\* The answer to request r is one that the method of call c accepts
Accepted(c, r) ==
  /\ promise[r].state = "resolved"
  /\ IF calls[c].method = "getAdInsights"
     THEN promise[r].value[2] # "undefined"
     ELSE /\ promise[r].value[2] \in {"r1", "r2"}
          /\ IsDateSpecific(promise[r].value[2], calls[c].dateRange)

\* The attribution windows in the order of each method's approach list
WindowOrder(method) ==
  IF method = "getAdInsights"
  THEN <<"1d_click", "7d_click", "1d_view">>
  ELSE <<"1d_click", "7d_click", "1d_click">>

\* C13: the k-th request a call makes is the one of the k-th approach of its
\* list, it is made only after the request before it was answered and not
\* accepted, it is dispatched at most once, and a call that returned a result
\* made its last request for the approach it accepted.
C13_ApproachesInOrder ==
  /\ \A r \in 1..Len(requests) :
       requests[r].owner # 0 =>
         LET c == requests[r].owner
             k == RequestRank(r)
         IN /\ k <= Len(WindowOrder(calls[c].method))
            /\ ParamGet(requests[r].params, "attribution_window")
                 = WindowOrder(calls[c].method)[k]
            /\ (calls[c].method = "getAdSpecificInsights"
                 => HasParam(requests[r].params, "time_range") = (k <= 2))
            /\ Cardinality(Dispatches(r)) <= 1
            /\ promise[r].state # "pending" => Cardinality(Dispatches(r)) = 1
            /\ \A q \in OwnedRequests(c) :
                 q < r => (promise[q].state # "pending" /\ ~Accepted(c, q))
  /\ \A c \in 1..Len(calls) :
       calls[c].pc = "returned" =>
         IF calls[c].result # Null
         THEN \/ OwnedRequests(c) = {}  \* answered from the method's own cache
              \/ \E r \in OwnedRequests(c) :
                   Accepted(c, r) /\ \A q \in OwnedRequests(c) : q <= r
         ELSE /\ Cardinality(OwnedRequests(c)) = Len(WindowOrder(calls[c].method))
              /\ \A q \in OwnedRequests(c) : ~Accepted(c, q)

\* C13 witness: a getAdSpecificInsights call went through its three
\* approaches and accepted the third.
C13_Witness ==
  \E c \in 1..Len(calls) :
    /\ calls[c].method = "getAdSpecificInsights"
    /\ calls[c].pc = "returned"
    /\ calls[c].result # Null
    /\ Cardinality(OwnedRequests(c)) = 3

\* C14: a getAdInsights call for a single day that returned a payload built
\* from an upstream answer accepted an answer that holds a record whose
\* date_start and date_stop are both the requested day.
C14_AcceptsOnlyDateMatch ==
  \A c \in 1..Len(calls) :
    (/\ calls[c].method = "getAdInsights"
     /\ calls[c].dateRange \in {"today", "yesterday"}
     /\ calls[c].pc = "returned"
     /\ calls[c].result # Null
     /\ OwnedRequests(c) # {})
    => LET answer == promise[calls[c].req].value
       IN /\ answer[2] \in {"r1", "r2"}
          /\ DateStart(answer[2]) = getDateRange(calls[c].dateRange).since
          /\ DateStop(answer[2]) = getDateRange(calls[c].dateRange).since

\* The attribution windows of the batch retrieval as the claim orders them,
\* the first three with an explicit range and the fourth with a date preset
BatchWindowOrder == <<"7d_click", "1d_view", "7d_view", "1d_click">>

\* C15: the k-th request of a batch retrieval goes to the account's insights
\* endpoint with the k-th of the four attribution windows, with an explicit
\* time range for the first three and a date preset for the fourth.
C15_BatchApproachOrder ==
  \A r \in 1..Len(requests) :
    requests[r].owner # 0 =>
      LET k == RequestRank(r)
      IN /\ k <= Len(BatchWindowOrder)
         /\ requests[r].endpoint = <<"act_1", "/insights">>
         /\ ParamGet(requests[r].params, "attribution_window") = BatchWindowOrder[k]
         /\ HasParam(requests[r].params, "time_range") = (k <= 3)
         /\ HasParam(requests[r].params, "date_preset") = (k = 4)

\* C16: a getAdInsights(adId, dateRange, _t) call is awaiting a request or has
\* returned (it never ends by raising); a request of it that was rejected is
\* followed by the request of the next approach; and it returns null exactly
\* when its three approaches all went unaccepted, a payload otherwise.
C16_NeverRaisesNullOnTotalFailure ==
  \A c \in 1..Len(calls) :
    calls[c].method = "getAdInsights" =>
      /\ calls[c].pc \in {"await", "returned"}
      /\ \A r \in OwnedRequests(c) :
           (promise[r].state = "rejected" /\ RequestRank(r) < 3 /\ calls[c].req # r)
           => \E q \in OwnedRequests(c) : RequestRank(q) = RequestRank(r) + 1
      /\ calls[c].pc = "returned" =>
           /\ calls[c].result = Null
                <=> (/\ Cardinality(OwnedRequests(c)) = 3
                     /\ \A q \in OwnedRequests(c) : ~Accepted(c, q))
           /\ calls[c].result # Null => calls[c].result[1] = "insights"

\* C16 witness: a call whose three requests were all rejected returned null.
C16_Witness ==
  \E c \in 1..Len(calls) :
    /\ calls[c].pc = "returned"
    /\ calls[c].result = Null
    /\ Cardinality(OwnedRequests(c)) = 3
    /\ \A q \in OwnedRequests(c) : promise[q].state = "rejected"

\* What a record holds, read exactly: its spend in hundredths and its
\* impressions and clicks as whole numbers
SpendOf(record) == Hundredths(OrZero(record.spend))
ImpressionsOf(record) == Hundredths(OrZero(record.impressions)) \div 100
ClicksOf(record) == Hundredths(OrZero(record.clicks)) \div 100
Scored == performanceScore # Undefined

\* C17: calculatePerformanceScore returns 0 for a record whose spend is 0 or
\* whose impressions are 0, whatever its clicks, ctr, cpm, cpc and
\* action_values are (also action values that could not be scored).
C17_ZeroWithoutDelivery ==
  (Scored /\ (SpendOf(insights) = 0 \/ ImpressionsOf(insights) = 0))
    => performanceScore = Num(0)

\* A record with spend, without impressions, with a CTR of 3.00 and an action
\* value that has no type was given 0
C17_Witness ==
  /\ Scored
  /\ SpendOf(insights) > 0
  /\ ImpressionsOf(insights) = 0
  /\ insights.ctr = Money(300)
  /\ insights.action_values = ArrayOf(<<[value |-> Money(100)]>>)
  /\ performanceScore = Num(0)

\* The weighted sum of a call's sub-scores in hundredths, exactly, and the
\* final score of the formula: round(min(100, sum)), a half going up
ScoresOf(scoresValue) == scoresValue[2]
WeightedHundredths(of) ==
  40 * NumVal(of.roas) + 25 * of.ctr + 20 * of.clicks + 8 * of.cpm + 7 * of.cpc
FinalScore(of) ==
  LET sum == WeightedHundredths(of)
      capped == IF sum > 10000 THEN 10000 ELSE sum
  IN (capped + 50) \div 100

\* Every action value of the record has an action type
Typed(record) ==
  \/ record.action_values = Undefined
  \/ \A i \in 1..Len(Elements(record.action_values)) :
       "action_type" \in DOMAIN Elements(record.action_values)[i]

\* C18: for a record with spend and impressions, calculatePerformanceScore
\* returns round(min(100, 0.40 ROAS + 0.25 CTR + 0.20 click + 0.08 CPM +
\* 0.07 CPC)) of its sub-scores, and whatever the record (its action values
\* having their types), what it returns is an integer from 0 to 100.
C18_WeightedRoundedScore ==
  (Scored /\ Typed(insights)) =>
    /\ IsNum(performanceScore)
    /\ NumVal(performanceScore) \in 0..100
    /\ (SpendOf(insights) > 0 /\ ImpressionsOf(insights) > 0)
         => /\ scores # Undefined
            /\ NumVal(performanceScore) = FinalScore(ScoresOf(scores))

\* The conversion value of a record in hundredths, exactly: the highest value
\* among its purchase-type action values, 0 without one
ConversionValueOf(record) ==
  LET actionValues ==
        IF record.action_values = Undefined THEN <<>>
        ELSE Elements(record.action_values)
      values ==
        { Hundredths(OrZero(actionValues[i].value)) :
            i \in { j \in 1..Len(actionValues) :
                      IsPurchaseType(actionValues[j].action_type) } }
  IN IF values = {} THEN 0 ELSE CHOOSE v \in values : \A w \in values : w <= v

\* The tier tables with ROAS = value / spend and CTR = ctr / 100, exactly
RoasTable(value, spend) ==
  IF value >= 4 * spend THEN 100
  ELSE IF value >= 3 * spend THEN 90
  ELSE IF 2 * value >= 5 * spend THEN 80
  ELSE IF value >= 2 * spend THEN 70
  ELSE IF 2 * value >= 3 * spend THEN 60
  ELSE IF value >= spend THEN 50
  ELSE IF 2 * value >= spend THEN 30
  ELSE IF value > 0 THEN 10
  ELSE 0
CtrTable(ctr) ==
  IF ctr >= 300 THEN 100
  ELSE IF ctr >= 200 THEN 90
  ELSE IF ctr >= 150 THEN 80
  ELSE IF ctr >= 100 THEN 70
  ELSE IF ctr >= 50 THEN 60
  ELSE IF ctr >= 30 THEN 50
  ELSE IF ctr >= 10 THEN 30
  ELSE IF ctr > 0 THEN 10
  ELSE 0

\* C19: the ROAS sub-score of a scored record is the tier of its conversion
\* value divided by its spend (4.0 and more 100, 3.0 and more 90, 2.5 and
\* more 80, ..., more than 0 gives 10, else 0: spend 100 with value 250
\* scores 80), and its CTR sub-score is the tier of its CTR, each tier
\* including its lower bound.
C19_TierTables ==
  (Scored /\ scores # Undefined)
    => /\ NumVal(ScoresOf(scores).roas)
            = RoasTable(ConversionValueOf(insights), SpendOf(insights))
       /\ ScoresOf(scores).ctr = CtrTable(Hundredths(OrZero(insights.ctr)))

\* The call before this one, and both calls having computed their sub-scores
Before == previous[2]
BothScored ==
  /\ previous # Undefined
  /\ Before.scores # Undefined
  /\ Scored
  /\ scores # Undefined

\* value1 / spend1 < value2 / spend2, exactly
RoasLess(value1, spend1, value2, spend2) == value1 * spend2 < value2 * spend1

ResolvedHundredths(array, types) ==
  IF array = Undefined THEN 0
  ELSE Largest({Hundredths(Elements(array)[i].value) :
                  i \in {j \in 1..Len(Elements(array)) : HasType(Elements(array)[j], types)}}
               \cup {0})

\* The account row processAdsData was called with, and what it logged
AccountRow == rawData[2].account[2]
Enriched(kind) == enriched[1] = kind
Distributed == Enriched("ads") /\ rawData[2].account # Null

\* C21: when several purchase-like records are reported for the same entity
\* and window, the resolved conversion count and conversion value are the
\* largest of their values, never their sum (5, 5 and 8 resolve to 8), in the
\* account results of getTodaySpendData and in the account totals of
\* processAdsData
C21_MaximumNotSum ==
  /\ Enriched("todaySpend") =>
       100 * enriched[2].results = ResolvedHundredths(rawData[2].actions, ResultTypes)
  /\ Distributed =>
       /\ 100 * enriched[2].logged.totalAccountConversions
            = ResolvedHundredths(AccountRow.actions, Including.purchase)
       /\ ResolvedHundredths(AccountRow.action_values, Including.purchase) > 0 =>
            enriched[2].logged.totalAccountConversionValue
              = Decimal(ResolvedHundredths(AccountRow.action_values, Including.purchase), 100)

\* A returned amount in hundredths, and the spend of the row in hundredths
CentsOf(v) == toFixed(v[2], 2)
SpendCents == Hundredths(OrZero(rawData[2].spend))

\* C22: the cost of a result is the spend divided by the resolved result
\* count when that count is positive (here: to the cent, as it is returned),
\* and exactly 0, neither an error nor an infinite value, when the count is 0
\* or the row has no actions list
C22_CostOfResults ==
  Enriched("todaySpend") =>
    /\ IsDouble(enriched[2].costOfResults)
    /\ rawData[2].actions = Undefined => enriched[2].results = 0
    /\ enriched[2].results = 0 => enriched[2].costOfResults = Double(Zero)
    /\ enriched[2].results > 0 =>
         LET off == CentsOf(enriched[2].costOfResults) * enriched[2].results - SpendCents
         IN 2 * off <= enriched[2].results /\ 0 - 2 * off <= enriched[2].results

\* C22: a row with spend 99.99 and 8 results costs 12.50 a result, and a row
\* with a spend has been returned with no result and no cost
C22_Witness ==
  /\ Enriched("todaySpend")
  /\ rawData[2].spend = Money(9999)
  /\ enriched[2].results = 8
  /\ enriched[2].costOfResults = Double(Decimal(1250, 100))

\* The ads processAdsData kept, and their spends in hundredths
KeptAds == Filter(rawData[2].ads,
                  {ad \in {rawData[2].ads[i] : i \in 1..Len(rawData[2].ads)} :
                     ~LooksLikeAdset(ad.name)})
AdSpendCents(i) == Hundredths(OrZero(KeptAds[i].insights.spend))
RECURSIVE SpendCentsUpTo(_)
SpendCentsUpTo(n) == IF n = 0 THEN 0 ELSE SpendCentsUpTo(n - 1) + AdSpendCents(n)
TotalSpendCents == SpendCentsUpTo(Len(KeptAds))

\* What a returned ad was given: its purchase count and its purchase value
AllocatedConversions(i) ==
  ResolvedHundredths(enriched[2].ads[i].metrics.actions, {"purchase"}) \div 100
AllocatedValueCents(i) ==
  ResolvedHundredths(enriched[2].ads[i].metrics.action_values, {"purchase"})

\* n * s / total rounded to the nearest whole number, halves upwards
RoundedShare(n, s, total) == (2 * n * s + total) \div (2 * total)

\* C23: the account's conversion count N is distributed over the ads by their
\* share of the total spend: ad i with spend s_i of a total S > 0 is given
\* round(N * s_i / S) conversions, an ad without spend is given no conversion
\* and no conversion value, and spends 30 and 70 with N = 10 give 3 and 7
C23_ProportionalAllocation ==
  Distributed =>
    \A i \in 1..Len(KeptAds) :
      /\ TotalSpendCents > 0 =>
           AllocatedConversions(i)
             = RoundedShare(enriched[2].logged.totalAccountConversions,
                            AdSpendCents(i), TotalSpendCents)
      /\ AdSpendCents(i) = 0 =>
           AllocatedConversions(i) = 0 /\ AllocatedValueCents(i) = 0

\* The purchase conversion count and value the account row reports, resolved
\* as C21 states: the largest among its purchase-like records
ReportedConversions == ResolvedHundredths(AccountRow.actions, Including.purchase) \div 100
ReportedValueCents == ResolvedHundredths(AccountRow.action_values, Including.purchase)

\* C24: when the account reports a purchase conversion count above zero and
\* a purchase conversion value of zero, the total conversion value that is
\* distributed is the conversion count times the default of 50 per purchase,
\* never zero
C24_DefaultValuePerPurchase ==
  (Distributed /\ ReportedConversions > 0 /\ ReportedValueCents = 0) =>
    /\ enriched[2].logged.totalAccountConversionValue # Zero
    /\ enriched[2].logged.totalAccountConversionValue
         = FromInt(ReportedConversions * defaultConversionValuePerPurchase)

\* The link clicks, impressions and spend (in hundredths) of the row that was
\* enriched
LinkClicksOf == ResolvedHundredths(rawData[2].actions, {"link_click"}) \div 100
ImpressionsOfRow == Hundredths(OrZero(rawData[2].impressions)) \div 100

\* v is n / d to four decimals, and 0 when d is 0
IsRatio(v, n, d) ==
  /\ IsDouble(v)
  /\ d = 0 => v = Double(Zero)
  /\ d > 0 => LET off == toFixed(v[2], 4) * d - 10000 * n
              IN 2 * off <= d /\ 0 - 2 * off <= d

\* C25: in the metrics derived from a row, at the account level
\* (getTodaySpendData) and at the ad level (processAdInsightsData), ctr is
\* link clicks / impressions * 100 and cpc is spend / link clicks, each 0 when
\* its divisor is 0, where link clicks is the value of the link_click action:
\* neither is the rate of the platform
C25_LinkClickRates ==
  /\ Enriched("todaySpend") =>
       /\ IsRatio(enriched[2].ctr, 100 * LinkClicksOf, ImpressionsOfRow)
       /\ IsRatio(enriched[2].cpc, SpendCents, 100 * LinkClicksOf)
  /\ Enriched("adInsights") =>
       /\ IsRatio(enriched[2].metrics.ctr, 100 * LinkClicksOf, ImpressionsOfRow)
       /\ IsRatio(enriched[2].metrics.cpc, SpendCents, 100 * LinkClicksOf)

\* Both credentials are given in the environment of the process
CredentialsGiven ==
  /\ env.META_ACCESS_TOKEN = <<"string", "token">>
  /\ env.META_AD_ACCOUNT_ID = <<"string", "act_1">>

\* C26: after startup (loadCacheFromFile) every entry the store holds has an
\* expiry above now, the expired entries of the snapshot having been pruned;
\* when the file is missing or does not parse the store starts empty, and
\* startup does not fail
C26_StartupPrunesExpired ==
  [][ process' \in {"running", "failed"} /\ process' # process =>
        /\ DOMAIN cache' = DOMAIN cacheExpiry'
        /\ \A k \in DOMAIN cache' :
              IsNum(cacheExpiry'[k]) /\ NumVal(cacheExpiry'[k]) > now'
        /\ cacheFile \in {Undefined, Corrupt} =>
              cache' = EmptyMap /\ cacheExpiry' = EmptyMap
        /\ CredentialsGiven => process' = "running" ]_vars

\* C26: a process has started on a snapshot of which it kept one entry and
\* pruned another
C26_Witness ==
  /\ process = "running"
  /\ requests = <<>>
  /\ writesSinceSave = 0
  /\ cacheFile[1] = "file"
  /\ DOMAIN cache # {}
  /\ DOMAIN cache # DOMAIN cacheFile[2]
  /\ DOMAIN cache \subseteq DOMAIN cacheFile[2]
  /\ \A k \in DOMAIN cache : Less(Num(now), cacheExpiry[k])
  /\ \E k \in DOMAIN cacheFile[3] : cacheFile[3][k] = Null

\* C27: the snapshot is written every 5 cache writes: every run of 5
\* consecutive setCache calls contains a call after which the file holds the
\* full key-to-value and key-to-expiry mappings
C27_SavedEveryFiveWrites == writesSinceSave < saveEvery

\* The last call on the cache in the last step was clearCache()
Cleared ==
  lastCacheOps # <<>> /\ lastCacheOps[Len(lastCacheOps)].op = "clear"

C30_NoServiceWithoutCredentials ==
  (~CredentialsGiven /\ process # "unstarted") =>
    /\ process \in {"failed", "exited"}
    /\ moduleExports = Undefined
    /\ requests = <<>>
    /\ requestQueue = <<>>
    /\ dispatchLog = <<>>

\* C30: the constructor has thrown for a missing ad account id, the access
\* token being given
C30_Witness ==
  /\ process = "failed"
  /\ env.META_ACCESS_TOKEN = <<"string", "token">>
  /\ env.META_AD_ACCOUNT_ID = Undefined
  /\ moduleExports = Undefined

(* ------------------------------------------------------------------- C31 *)
\* The two requests and the keys computed for them
KeyedRequests == rawData[2]
CacheKeyOf == enriched[2]

\* The check is moot where request b is not request a with a nonce added
BypassOf(a, b) ==
  /\ a.endpoint = b.endpoint
  /\ ~HasParam(a.params, "_t")
  /\ HasParam(b.params, "_t")
  /\ Properties(b.params) = Properties(a.params) \cup {<<"_t", ParamGet(b.params, "_t")>>}

\* C31: the cache key is canonical.  Two requests with the same endpoint and
\* the same parameter names and values get the same key whatever the order in
\* which the parameters were given, and the key of a bypass request (with _t)
\* differs from the key of the same request without it.
C31_CanonicalKey ==
  (rawData # Undefined /\ rawData[1] = "requests" /\ enriched # Undefined) =>
    /\ (/\ KeyedRequests.a.endpoint = KeyedRequests.b.endpoint
        /\ Properties(KeyedRequests.a.params) = Properties(KeyedRequests.b.params))
         => CacheKeyOf.a = CacheKeyOf.b
    /\ BypassOf(KeyedRequests.a, KeyedRequests.b) => CacheKeyOf.a # CacheKeyOf.b

\* Keys were computed for a request with three parameters and for the same
\* request with its parameters given in another order, one of them the nonce
C31_Witness ==
  /\ rawData # Undefined
  /\ rawData[1] = "requests"
  /\ enriched # Undefined
  /\ KeyedRequests.a.endpoint = KeyedRequests.b.endpoint
  /\ Len(KeyedRequests.a.params) = 3
  /\ HasParam(KeyedRequests.a.params, "_t")
  /\ Properties(KeyedRequests.a.params) = Properties(KeyedRequests.b.params)
  /\ KeyedRequests.a.params # KeyedRequests.b.params
  /\ CacheKeyOf.a = CacheKeyOf.b

(* ------------------------------------------------------------------- C32 *)
\* C32: in every reachable state the value map and the expiry map of the
\* cache have exactly the same key set: setCache, the eviction of
\* getFromCache, cleanExpiredCache, clearCache and the load of a snapshot the
\* service wrote leave no value without an expiry and no expiry without a value.
C32_SameKeySets == DOMAIN cache = DOMAIN cacheExpiry

\* getFromCache has just evicted a stale entry of a store that was loaded
\* from a snapshot and still holds another entry
C32_Witness ==
  /\ process = "running"
  /\ cacheFile # Undefined
  /\ cacheFile # Corrupt
  /\ cache # EmptyMap
  /\ \E i \in 1..Len(lastCacheOps) :
       /\ lastCacheOps[i].op = "get"
       /\ lastCacheOps[i].hadValue
       /\ ~lastCacheOps[i].keptValue
       /\ ~lastCacheOps[i].keptExpiry

(* ------------------------------------------------------------------- C33 *)
\* C33: no wake-up is lost.  Whenever control is back in the event loop, a
\* non-empty request queue implies that a drain loop is active and
\* isProcessingQueue is true, and when no drain loop is left
\* isProcessingQueue is false, also after a request failed.
C33_NoLostWakeUp ==
  /\ Len(requestQueue) > 0 => (isProcessingQueue /\ ActiveDrains # {})
  /\ ActiveDrains = {} => ~isProcessingQueue

\* A request has failed and was rejected, and the drain loop went on: it is
\* active, with another request still waiting in the queue
C33_Witness ==
  /\ \E r \in 1..Len(promise) : promise[r].state = "rejected"
  /\ Len(requestQueue) > 0
  /\ isProcessingQueue
  /\ ActiveDrains # {}

(* ------------------------------------------------------------------- C34 *)
\* The same request: equal endpoint, equal parameter names and values
SameRequest(r1, r2) ==
  /\ requests[r1].endpoint = requests[r2].endpoint
  /\ Properties(requests[r1].params) = Properties(requests[r2].params)

\* A request that consults the cache and whose category has a TTL
SharesEntry(r) ==
  /\ ~HasParam(requests[r].params, "_t")
  /\ requests[r].cacheType \in DOMAIN cacheDurations

\* C34: two non-bypass requests with the same endpoint and parameters and a
\* category that has a TTL, enqueued while neither has completed, cause
\* exactly one HTTP call when the first succeeds: the first is fetched, and the
\* second, executed after it, is served from the entry the first one stored.
C34_OneFetchForTwo ==
  \A j1, j2 \in 1..Len(dispatchLog) :
    LET r1 == dispatchLog[j1].req
        r2 == dispatchLog[j2].req
    IN (/\ j1 < j2
        /\ r1 # r2
        /\ SameRequest(r1, r2)
        /\ SharesEntry(r1) /\ SharesEntry(r2)
        /\ dispatchLog[j1].http
        /\ promise[r1].upstream = <<"httpResponse", 200>>)
       => /\ ~dispatchLog[j2].http
          /\ Cardinality(Dispatches(r1)) = 1
          /\ Cardinality(Dispatches(r2)) = 1
          /\ promise[r1].state = "resolved"
          /\ promise[r2].state # "pending"
               => (promise[r2].state = "resolved" /\ promise[r2].value = promise[r1].value)

\* Two identical requests without the nonce were enqueued together, the first
\* was fetched, and the second was resolved without an HTTP call
C34_Witness ==
  /\ Len(requests) >= 2
  /\ SameRequest(1, 2)
  /\ SharesEntry(1) /\ SharesEntry(2)
  /\ Len(dispatchLog) >= 2
  /\ dispatchLog[1].req = 1 /\ dispatchLog[1].http
  /\ dispatchLog[2].req = 2 /\ ~dispatchLog[2].http
  /\ promise[1].upstream = <<"httpResponse", 200>>
  /\ promise[2].state = "resolved"

(* ------------------------------------------------------------------- C35 *)
\* The entry of key k is the same, in both maps, before and after the step
SameEntry(k) ==
  /\ (k \in DOMAIN cache) <=> (k \in DOMAIN cache')
  /\ (k \in DOMAIN cacheExpiry) <=> (k \in DOMAIN cacheExpiry')
  /\ MapGet(cache', k) = MapGet(cache, k)
  /\ MapGet(cacheExpiry', k) = MapGet(cacheExpiry, k)

\* The entry of key k was stale at the time of the step and is gone after it
StaleEvicted(k) ==
  /\ k \in DOMAIN cacheExpiry
  /\ ~Less(Num(now'), cacheExpiry[k])
  /\ k \notin DOMAIN cache'
  /\ k \notin DOMAIN cacheExpiry'

\* The steps of an execution that issues the HTTP GET and does not end in a
\* stored response: the dispatch, whose lookup may evict the stale entry of
\* the request's own key, and every step from there to the failure
C35_FailureStep ==
  \A i \in 1..Len(drain') :
    LET r == drain'[i].req
        before == IF i <= Len(drain) THEN drain[i].pc ELSE "idle"
        succeeds == drain'[i].pc = "settled" /\ drain'[i].outcome[1] = "ok"
    IN /\ (drain'[i].pc = "http" /\ before # "http")
          => \A k \in (DOMAIN cache) \cup (DOMAIN cacheExpiry)
                      \cup (DOMAIN cache') \cup (DOMAIN cacheExpiry') :
               \/ SameEntry(k)
               \/ /\ k = getCacheKey(requests'[r].endpoint, requests'[r].params)
                  /\ StaleEvicted(k)
       /\ (before = "http" /\ ~succeeds)
          => (cache' = cache /\ cacheExpiry' = cacheExpiry)

\* C35: a request whose HTTP call fails never inserts or overwrites a cache
\* entry.  After the failure the value and the expiry stored under every key
\* are what they were before the call, except that a stale entry under the
\* request's own key may have been evicted by the lookup.
C35_FailureLeavesCache == [][C35_FailureStep]_vars

\* A request without the nonce has failed after an earlier request of the
\* same key had been fetched and stored: its own entry is gone, evicted as
\* stale by a lookup, and the entry of another key is still there
C35_Witness ==
  \E i \in 1..Len(drain) :
    /\ drain[i].pc = "settled"
    /\ drain[i].outcome[1] = "error"
    /\ ~HasParam(requests[drain[i].req].params, "_t")
    /\ \E r0 \in 1..(drain[i].req - 1) :
         /\ SameRequest(r0, drain[i].req)
         /\ promise[r0].upstream = <<"httpResponse", 200>>
    /\ getCacheKey(requests[drain[i].req].endpoint, requests[drain[i].req].params)
         \notin DOMAIN cache
    /\ cache # EmptyMap

(* ------------------------------------------------------------------- C36 *)
\* The keys getFromCache would serve at time t: an expiry that is a number
\* above t
LiveKeys(t) ==
  {k \in (DOMAIN cache) \cap (DOMAIN cacheExpiry) :
     Truthy(cacheExpiry[k]) /\ Less(Num(t), cacheExpiry[k])}

\* A process that saved its store at exit is started again: the constructor
\* loads what was saved.  The clock is read at the load; it is the time of
\* the save when no time has passed in between.
C36_RoundTripStep ==
  (process = "exited" /\ process' # "exited") =>
    /\ cacheFile = saveCacheToFile(Svc).cacheFile
    /\ DOMAIN cache' = LiveKeys(now')
    /\ DOMAIN cacheExpiry' = LiveKeys(now')
    /\ \A k \in LiveKeys(now') :
         cache'[k] = cache[k] /\ cacheExpiry'[k] = cacheExpiry[k]

Returns(c) ==
  /\ calls'[c].pc = "returned"
  /\ c > Len(calls) \/ calls[c].pc # "returned"

\* The entry of a per-ad key changes only in a step in which a call for that
\* ad and date range returns a payload (or in which a lookup evicts it as
\* stale): no step of a call that ends in null writes it
C37_FailureStep ==
  \A a \in RetryAdIds, d \in DateRanges :
    \/ SameEntry(AdInsightsKey(a, d))
    \/ StaleEvicted(AdInsightsKey(a, d))
    \/ \E c \in 1..Len(calls') :
         /\ calls'[c].adId = a
         /\ calls'[c].dateRange = d
         /\ Returns(c)
         /\ calls'[c].result # Null

\* The call that follows a call of the same ad and date range which returned
\* null is not answered from the cache: it makes a request, and its requests
\* are dispatched with an HTTP GET
C37_NextCallAsksUpstream ==
  \A c \in 2..Len(calls) :
    (/\ calls[c - 1].pc = "returned"
     /\ calls[c - 1].result = Null
     /\ calls[c - 1].adId = calls[c].adId
     /\ calls[c - 1].dateRange = calls[c].dateRange)
    => /\ OwnedRequests(c) # {}
       /\ \A j \in 1..Len(dispatchLog) :
            requests[dispatchLog[j].req].owner = c => dispatchLog[j].http

\* C37: a getAdInsights(adId, dateRange) call that ends in total failure
\* (returns null) writes nothing under the per-ad key
\* ad_insights_<adId>_<dateRange>, so the next call for the same ad and date
\* range queries the upstream again instead of returning a cached failure.
C37_FailureNotCached == []C37_NextCallAsksUpstream /\ [][C37_FailureStep]_vars

\* A call returned null after its three approaches failed, the per-ad key
\* holds no entry, and the request of the next call for the same ad and date
\* range, made without the nonce, was dispatched with an HTTP GET
C37_Witness ==
  /\ Len(calls) = 2
  /\ calls[1].pc = "returned"
  /\ calls[1].result = Null
  /\ calls[2].adId = calls[1].adId
  /\ calls[2].dateRange = calls[1].dateRange
  /\ calls[2].nonce = ""
  /\ AdInsightsKey(calls[1].adId, calls[1].dateRange) \notin DOMAIN cache
  /\ \E j \in 1..Len(dispatchLog) :
       requests[dispatchLog[j].req].owner = 2 /\ dispatchLog[j].http

(* ------------------------------------------------------------------- C38 *)
\* The execution of a request made before clearCache last returned ends in
\* this step; the step stores nothing: both maps are as they were
C38_CompletionStep ==
  \A i \in 1..Len(drain) :
    (/\ drain[i].pc = "http"
     /\ drain'[i].pc = "settled"
     /\ drain[i].req \in issuedBeforeClear)
    => (cache' = cache /\ cacheExpiry' = cacheExpiry)

\* No request is served, from the cache, the entry of a request made before
\* the clear: while only such requests have been fetched, every execution
\* issues the HTTP GET
C38_NotServed ==
  \A j \in 1..Len(dispatchLog) :
    (\A r \in 1..Len(promise) :
       promise[r].upstream # Undefined => r \in issuedBeforeClear)
    => (dispatchLog[j].req \notin issuedBeforeClear => dispatchLog[j].http)

\* C38: after clearCache() has returned, no response to a request that was
\* issued before the clear is ever stored in or served from the cache.  A
\* request in flight at the time of the clear does not repopulate the store
\* when it completes.
C38_ClearIsFinal == []C38_NotServed /\ [][C38_CompletionStep]_vars

====
